---------------------------- MODULE Spec2Model ----------------------------
(***************************************************************************)
(* Model of the 31Days article-to-podcast pipeline.                        *)
(*                                                                         *)
(*   Part 1  strings (Python str operations on sequences of characters)    *)
(*   Part 2  CodeSummarizer (src/code_summarizer.py): cache, LLM call,     *)
(*           fallback summary, statistics                 -- Spec          *)
(*   Part 3  AudioGenerator (src/audio_generator.py): _chunk_text and      *)
(*           _split_into_sentences on every text          -- ChunkSpec     *)
(*           generate_episode, one step per backend call  -- AudioSpec     *)
(*           several generate_episode calls in a row     -- EpisodesSpec   *)
(*   Part 4  ContentProcessor (src/processor.py): code blocks described,   *)
(*           text extracted and cleaned                -- ProcessorSpec    *)
(*   Part 5  main.py: the loops over the articles      -- MainSpec         *)
(*   Part 6  main.py: save_text and load_text          -- TextSpec         *)
(*   Part 7  VibeCodingScraper (src/scraper.py):                           *)
(*           discover_article_urls                     -- CrawlSpec        *)
(*                                                                         *)
(* A Python str is a sequence of one-character strings: "a:b" is           *)
(* <<"a", ":", "b">> and "" is << >>.                                      *)
(***************************************************************************)
EXTENDS Integers, Sequences, FiniteSets, TLC

VARIABLES
    \* ---- CodeSummarizer ----
    cache_enabled,  \* self.cache_enabled
    cache,          \* self.cache: function from cache key to summary
    stats,          \* self.stats: [cache_hits, api_calls, errors]
    file,           \* the file cache/code_summaries.json on disk
    llm_calls,      \* number of times _call_llm has been entered
    ncalls,         \* number of summarize calls made
    init_raised,    \* the exception CodeSummarizer(...) raised; "none": it returned
    last,           \* observation of the most recent summarize call
    \* ---- AudioGenerator ----
    text,           \* generate_episode / _chunk_text argument text
    max_chars,      \* self.MAX_CHARS_PER_REQUEST
    pc,             \* position inside generate_episode
    chunks,         \* local chunks (result of _chunk_text)
    idx,            \* number of chunks already synthesized in the loop
    synth_log,      \* every text _generate_audio was invoked with, in order
    audio_chunks,   \* local audio_chunks
    stitched,       \* <<the list handed to _concatenate_and_save>>, << >> before
    out_file,       \* <<the bytes of the file at output_path>>, << >> if none
    gen_stats,      \* self.stats: [episodes, errors, total_characters, total_episodes]
    ret,            \* what generate_episode returned: "True", "False"; "none" before
    \* ---- ContentProcessor ----
    summarize_code,     \* self.summarize_code
    use_llm,            \* self.use_llm
    llm_summarizer,     \* self.llm_summarizer: "CodeSummarizer", or "None"
    force_resummarize,  \* self.force_resummarize
    soup,               \* the parsed document: a sequence of elements
    ppc,                \* position inside process: "blocks", "done"; "idle"
    described,          \* what _describe_code_block returned, call after call
    summarize_log,      \* the arguments of every llm_summarizer.summarize call
    body,               \* <<the text _clean_for_audio returned>>, << >> before
    article,            \* <<the ProcessedArticle process returned>>, << >> before
    \* ---- main.py: the loops over the articles ----
    fn,                 \* the function running: scrape_and_process,
                        \* generate_audio or generate_from_cache; "idle"
    articles,           \* the list the loop walks (articles or day numbers)
    next_article,       \* index of the list element the loop handles next
    attempted,          \* the elements handled so far, with what happened
    escaped,            \* the exception that left the function, "none" if none
    \* ---- main.py: save_text and load_text ----
    processed,          \* <<the ProcessedArticle handed to save_text>>
    text_file,          \* <<the content of output/text/day_NN.txt>>, << >> if none
    loaded,             \* <<what load_text returned or raised>>, << >> before
    \* ---- VibeCodingScraper.discover_article_urls ----
    web,                \* the site: the hrefs of the links of each page that exists
    discovered,         \* local discovered: the items of the dict, in insertion order
    urls_to_check,      \* local urls_to_check
    checked,            \* local checked
    fetch_log,          \* every URL fetch_page was called with, in order
    cpc,                \* position inside discover_article_urls
    returned            \* <<the list returned>>, << >> before

sumVars == <<cache_enabled, cache, stats, file, llm_calls, ncalls, init_raised, last>>
audioVars == <<text, max_chars, pc, chunks, idx, synth_log, audio_chunks, stitched, out_file,
               gen_stats, ret>>
procVars == <<summarize_code, use_llm, llm_summarizer, force_resummarize, soup, ppc,
              described, summarize_log, body, article>>
mainVars == <<fn, articles, next_article, attempted, escaped>>
textVars == <<processed, text_file, loaded>>
crawlVars == <<web, discovered, urls_to_check, checked, fetch_log, cpc, returned>>
vars == <<sumVars, audioVars, procVars, mainVars, textVars, crawlVars>>

(***************************************************************************)
(* Part 1: strings                                                         *)
(***************************************************************************)

\* str.isspace for one character (the whitespace str.strip and \s recognise)
IsSpace(c) == c \in {" ", "\n", "\t"}

RECURSIVE LStrip(_)
\* str.lstrip()
LStrip(s) == IF s # << >> /\ IsSpace(Head(s)) THEN LStrip(Tail(s)) ELSE s

RECURSIVE RStrip(_)
\* str.rstrip()
RStrip(s) ==
    IF s # << >> /\ IsSpace(s[Len(s)]) THEN RStrip(SubSeq(s, 1, Len(s) - 1)) ELSE s

\* str.strip()
Strip(s) == RStrip(LStrip(s))

UpperLetters ==
    <<"A", "B", "C", "D", "E", "F", "G", "H", "I", "J", "K", "L", "M",
      "N", "O", "P", "Q", "R", "S", "T", "U", "V", "W", "X", "Y", "Z">>

LowerLetters ==
    <<"a", "b", "c", "d", "e", "f", "g", "h", "i", "j", "k", "l", "m",
      "n", "o", "p", "q", "r", "s", "t", "u", "v", "w", "x", "y", "z">>

\* str.lower() of one character
LowerChar(c) ==
    IF \E i \in DOMAIN UpperLetters : UpperLetters[i] = c
    THEN LowerLetters[CHOOSE i \in DOMAIN UpperLetters : UpperLetters[i] = c]
    ELSE c

Lower(s) == [i \in 1..Len(s) |-> LowerChar(s[i])]

RECURSIVE CountChar(_, _)
\* str.count(c)
CountChar(s, c) ==
    IF s = << >> THEN 0
    ELSE (IF Head(s) = c THEN 1 ELSE 0) + CountChar(Tail(s), c)

\* the Python test "sub in s"
Contains(s, sub) ==
    \E i \in 0..(Len(s) - Len(sub)) : SubSeq(s, i + 1, i + Len(sub)) = sub

Digit(d) == <<"0", "1", "2", "3", "4", "5", "6", "7", "8", "9">>[d + 1]

RECURSIVE DecStr(_)
\* str(n) for n >= 0, as formatted by an f-string
DecStr(n) == IF n < 10 THEN <<Digit(n)>> ELSE DecStr(n \div 10) \o <<Digit(n % 10)>>

(***************************************************************************)
(* Bounds                                                                  *)
(***************************************************************************)

\* Bound: longest text given to the chunker and to generate_episode
MaxLen == 6

\* Bound: largest request limit explored.  The program's limit is 4500
\* characters; the chunker only compares lengths with it, so the model
\* explores every limit from 1 up to this bound against every text of up
\* to MaxLen characters.
MaxChars == 4

\* AudioGenerator.MAX_CHARS_PER_REQUEST, scaled to the model's texts
MAX_CHARS_PER_REQUEST == MaxChars

(***************************************************************************)
(* Part 2: CodeSummarizer                                                  *)
(***************************************************************************)

\* Bound: number of summarize calls explored
MaxCalls == 2

\* the shell snippet git add -A / git commit -m "wip"
GitCommitCode ==
    <<"g", "i", "t", " ", "a", "d", "d", " ", "-", "A", "\n",
      "g", "i", "t", " ", "c", "o", "m", "m", "i", "t", " ", "-", "m", " ",
      "\"", "w", "i", "p", "\"">>

\* The (language, code) inputs explored.  The first two differ only in where
\* the ':' falls; the third has an upper-case tag and a multi-line body with
\* surrounding blank lines; the fourth has no language tag; the fifth is a
\* two-line git snippet tagged bash.
Snippets ==
    { [language |-> <<"a", ":", "b">>, code |-> <<"c">>],
      [language |-> <<"a">>,           code |-> <<"b", ":", "c">>],
      [language |-> <<"P", "Y">>,      code |-> <<"\n", "c", "\n", "c", "\n">>],
      [language |-> << >>,             code |-> <<"c">>],
      [language |-> <<"b", "a", "s", "h">>, code |-> GitCommitCode] }

\* Raw texts the language model may answer with (message.content[0].text)
Responses == { <<" ", "S", "\n">>, <<" ">> }

\* A raw text the language model may answer with that holds a lone
\* surrogate code point (written "U+D800" here), which a str can hold and
\* UTF-8 cannot encode
UnencodableResponses == { <<"U+D800">> }

\* s.encode("utf-8") succeeds
Encodable(s) == \A i \in DOMAIN s : s[i] # "U+D800"

\* Ways the language-model call can fail, each an exception raised inside
\* _call_llm: no API key (ValueError in _get_client), the client library is
\* missing (ImportError in _get_client), the request fails (network, auth,
\* rate limit or timeout: client.messages.create raises), the answer has no
\* content[0].text (IndexError or AttributeError)
Failures == { "no_api_key", "import_error", "api_error", "malformed_payload" }

\* Outcomes of writing the cache file in _save_cache
WriteOutcomes == { "ok", "open_failed", "write_failed" }

\* hashlib.sha256(...).hexdigest()[:16], idealised as collision free: the
\* digest is determined by, and determines, the hashed content.
Sha256Hex16(content) == <<"sha256/16">> \o content

\* _hash_code: the key of f"{language}:{code}"
HashCode(code, language) == Sha256Hex16(language \o <<":">> \o code)

\* the lang_name table of _fallback_summary, as <<key, value>> pairs
LangNameTable ==
    { <<<<"p", "y", "t", "h", "o", "n">>,
         <<"P", "y", "t", "h", "o", "n">>>>,
       <<<<"p", "y">>,
         <<"P", "y", "t", "h", "o", "n">>>>,
       <<<<"j", "a", "v", "a", "s", "c", "r", "i", "p", "t">>,
         <<"J", "a", "v", "a", "S", "c", "r", "i", "p", "t">>>>,
       <<<<"j", "s">>,
         <<"J", "a", "v", "a", "S", "c", "r", "i", "p", "t">>>>,
       <<<<"t", "y", "p", "e", "s", "c", "r", "i", "p", "t">>,
         <<"T", "y", "p", "e", "S", "c", "r", "i", "p", "t">>>>,
       <<<<"t", "s">>,
         <<"T", "y", "p", "e", "S", "c", "r", "i", "p", "t">>>>,
       <<<<"b", "a", "s", "h">>,
         <<"B", "a", "s", "h">>>>,
       <<<<"s", "h">>,
         <<"s", "h", "e", "l", "l">>>>,
       <<<<"s", "h", "e", "l", "l">>,
         <<"s", "h", "e", "l", "l">>>>,
       <<<<"s", "q", "l">>,
         <<"S", "Q", "L">>>>,
       <<<<"j", "s", "o", "n">>,
         <<"J", "S", "O", "N">>>>,
       <<<<"h", "t", "m", "l">>,
         <<"H", "T", "M", "L">>>>,
       <<<<"c", "s", "s">>,
         <<"C", "S", "S">>>>,
       <<<<"g", "i", "t">>,
         <<"G", "i", "t">>>> }

\* dict.get(key, default) on LangNameTable
LangNameGet(key, default) ==
    IF \E e \in LangNameTable : e[1] = key
    THEN (CHOOSE e \in LangNameTable : e[1] = key)[2]
    ELSE default

\* _fallback_summary
FallbackSummary(code, language) ==
    LET lang_name == LangNameGet(Lower(language),
                                 IF language # << >> THEN language
                                 ELSE <<"c", "o", "d", "e">>)
        lines == CountChar(Strip(code), "\n") + 1
    IN  <<"[", "A", " ">> \o lang_name \o <<" ", "e", "x", "a", "m", "p", "l", "e", " ", "w", "i", "t", "h", " ">>
        \o DecStr(lines) \o 
           <<" ", "l", "i", "n", "e", "s", " ", "-", " ", "s", "e", "e", " ", "t", "h", "e", " ", "a", "r", "t", "i", "c", "l", "e", " ", "f", "o", "r", " ", "d", "e", "t", "a", "i", "l", "s", ".", "]">>

\* the text _call_llm returns for a raw answer: message.content[0].text.strip()
LLMText(raw) == Strip(raw)

\* a summarize that never consults the cache
IsCacheHitNever(enabled, force_refresh, key, c) == FALSE

\* the cache test of summarize (line 144)
IsCacheHit(enabled, force_refresh, key, c) ==
    enabled /\ ~force_refresh /\ key \in DOMAIN c

\* self.cache[cache_key] = value
CachePut(c, key, value) ==
    [k \in DOMAIN c \cup {key} |-> IF k = key THEN value ELSE c[k]]

EmptyCache == [k \in {} |-> << >>]

\* self.stats["cache_hits"] += 1
CountCacheHit(st) == [st EXCEPT !.cache_hits = @ + 1]

\* self.stats["api_calls"] += 1
CountApiCall(st) == [st EXCEPT !.api_calls = @ + 1]

\* an except branch that also counts the failed call as an API call
CountErrorAndCall(st) == [st EXCEPT !.errors = @ + 1, !.api_calls = @ + 1]

\* self.stats["errors"] += 1
CountError(st) == [st EXCEPT !.errors = @ + 1]

\* a summarize that never stores the model's answer
StoreSummaryDropped(enabled, c, key, summary) == c

\* the cache after lines 154-155: the model's answer is stored when caching
StoreSummary(enabled, c, key, summary) ==
    IF enabled THEN CachePut(c, key, summary) ELSE c

\* the variant of summarize that does not cache the fallback
StoreFallbackDropped(enabled, c, key, fallback) == c

\* the variant of summarize that keeps an entry the key already has
StoreFallbackKeepsEntry(enabled, c, key, fallback) ==
    IF enabled /\ key \notin DOMAIN c THEN CachePut(c, key, fallback) ELSE c

\* the cache after lines 165-166: the fallback is stored when caching
StoreFallback(enabled, c, key, fallback) ==
    IF enabled THEN CachePut(c, key, fallback) ELSE c

\* the outcomes a summarize call that stores can meet: _save_cache runs
\* only when caching is enabled ("none": no write is attempted)
WritesAttempted(enabled) == IF enabled THEN WriteOutcomes ELSE {"none"}

\* _save_cache: the file after an attempt to write cache c.  A failure of
\* mkdir/open leaves the file as it was; a failure while writing leaves a
\* truncated file.  Both are caught (IOError, OSError) and only logged.
SaveCache(f, c, w) ==
    CASE w = "ok" -> [kind |-> "json", data |-> c]
      [] w = "open_failed" -> f
      [] OTHER -> [kind |-> "corrupt"]

\* _save_cache raises instead of returning: the file is opened and
\* json.dump meets a string that UTF-8 cannot encode; the
\* UnicodeEncodeError is neither an IOError nor an OSError (line 113)
SaveCacheRaises(c, w) ==
    /\ w # "open_failed"
    /\ \E k \in DOMAIN c : ~Encodable(c[k])

\* get_stats
GetStats(st, c) ==
    [cache_hits |-> st.cache_hits, api_calls |-> st.api_calls, errors |-> st.errors,
     cache_size |-> Cardinality(DOMAIN c)]

\* a summarize that stores in memory and leaves the file for later
FileAfterStoreBatched(enabled, f, c, w) == f

\* the file after "if self.cache_enabled: ...; self._save_cache()"
FileAfterStore(enabled, f, c, w) == IF enabled THEN SaveCache(f, c, w) ELSE f

\* _load_cache: the cache a freshly constructed summarizer holds
LoadCache(f) == IF f.kind = "json" THEN f.data ELSE EmptyCache

\* _load_cache: the exception that escapes it, "none" when it returns.  Only
\* json.JSONDecodeError and IOError are caught: bytes that are not UTF-8
\* raise UnicodeDecodeError from the read, and a JSON document that is a
\* number or null raises TypeError from len(self.cache).
LoadRaises(f) ==
    CASE f.kind = "undecodable" -> "UnicodeDecodeError"
      [] f.kind = "json_scalar" -> "TypeError"
      [] OTHER -> "none"

\* Path.exists() of the cache file
Exists(f) == f.kind # "missing"

\* clear_cache, lines 223-225: the file is unlinked when it exists
Unlink(f) == IF Exists(f) THEN [kind |-> "missing"] ELSE f

NoCall == [path |-> "none"]

\* What a test harness sees of one summarize call: its arguments, the key
\* computed, the string returned, the branch taken (path: "hit", "llm",
\* "fallback", or "save_raised" when the except branch was entered from
\* _save_cache; why: the failure that led to the fallback), the outcome of
\* the write of the cache file ("none": no write was attempted), the
\* counters as they were when the call began, and the call made before it
\* since construction or the last clear_cache (prev: a sequence holding
\* that call's arguments, key, result and branch, empty for the first call).
CallRecord(code, language, force, key, result, path, why, write) ==
    [code |-> code, language |-> language, force |-> force, key |-> key,
     result |-> result, path |-> path, why |-> why, write |-> write,
     stats0 |-> stats, llm0 |-> llm_calls,
     prev |-> IF last.path = "none" THEN << >>
              ELSE <<[code |-> last.code, language |-> last.language,
                      key |-> last.key, result |-> last.result,
                      path |-> last.path]>>]

\* Files the summarizer may find at construction: none, an unreadable one,
\* a truncated one (not JSON), one cut inside a multi-byte character (not
\* UTF-8), one holding a JSON number or null, or a mapping written by an
\* earlier run.
InitialFiles ==
    { [kind |-> "missing"], [kind |-> "unreadable"], [kind |-> "corrupt"],
      [kind |-> "undecodable"], [kind |-> "json_scalar"],
      [kind |-> "json", data |-> EmptyCache] }
    \cup { [kind |-> "json", data |-> CachePut(EmptyCache, HashCode(s.code, s.language), v)] :
             s \in { x \in Snippets : x.language # << >> }, v \in { <<"T">> } }

\* the state idle/unchanged of the audio generator
AudioIdle ==
    /\ text = << >>
    /\ max_chars = MAX_CHARS_PER_REQUEST
    /\ pc = "idle"
    /\ chunks = << >>
    /\ idx = 0
    /\ synth_log = << >>
    /\ audio_chunks = << >>
    /\ stitched = << >>
    /\ out_file = << >>
    /\ gen_stats = [episodes |-> << >>, errors |-> << >>,
                    total_characters |-> 0, total_episodes |-> 0]
    /\ ret = "none"

\* the state idle/unchanged of the content processor
ProcessorIdle ==
    /\ summarize_code = TRUE
    /\ use_llm = FALSE
    /\ llm_summarizer = "None"
    /\ force_resummarize = FALSE
    /\ soup = << >>
    /\ ppc = "idle"
    /\ described = << >>
    /\ summarize_log = << >>
    /\ body = << >>
    /\ article = << >>

\* the state idle/unchanged of the loops of main.py
MainIdle ==
    /\ fn = "idle"
    /\ articles = << >>
    /\ next_article = 1
    /\ attempted = << >>
    /\ escaped = "none"

\* the state idle/unchanged of save_text and load_text
TextIdle ==
    /\ processed = << >>
    /\ text_file = << >>
    /\ loaded = << >>

\* the state idle/unchanged of the scraper
CrawlIdle ==
    /\ web = << >>
    /\ discovered = << >>
    /\ urls_to_check = << >>
    /\ checked = {}
    /\ fetch_log = << >>
    /\ cpc = "idle"
    /\ returned = << >>

\* CodeSummarizer.__init__
Init ==
    /\ cache_enabled \in BOOLEAN
    /\ file \in InitialFiles
    /\ cache = IF cache_enabled THEN LoadCache(file) ELSE EmptyCache
    /\ stats = [cache_hits |-> 0, api_calls |-> 0, errors |-> 0]
    /\ llm_calls = 0
    /\ ncalls = 0
    /\ init_raised = IF cache_enabled THEN LoadRaises(file) ELSE "none"
    /\ last = NoCall
    /\ AudioIdle
    /\ ProcessorIdle
    /\ MainIdle
    /\ TextIdle
    /\ CrawlIdle

\* summarize, lines 143-146: the key is cached and no refresh is forced
SummarizeHit(code, language, force_refresh) ==
    LET key == HashCode(code, language) IN
    /\ init_raised = "none"
    /\ ncalls < MaxCalls
    /\ IsCacheHit(cache_enabled, force_refresh, key, cache)
    /\ stats' = CountCacheHit(stats)
    /\ last' = CallRecord(code, language, force_refresh, key, cache[key], "hit", "hit",
                          "none")
    /\ ncalls' = ncalls + 1
    /\ UNCHANGED <<cache_enabled, cache, file, llm_calls, init_raised>>

\* summarize, lines 149-158: the language model answers with raw
SummarizeLLM(code, language, force_refresh, raw, w) ==
    LET key == HashCode(code, language)
        summary == LLMText(raw)
    IN
    /\ init_raised = "none"
    /\ ncalls < MaxCalls
    /\ ~IsCacheHit(cache_enabled, force_refresh, key, cache)
    /\ ~(cache_enabled /\ SaveCacheRaises(CachePut(cache, key, summary), w))
    /\ llm_calls' = llm_calls + 1
    /\ stats' = CountApiCall(stats)
    /\ cache' = StoreSummary(cache_enabled, cache, key, summary)
    /\ file' = FileAfterStore(cache_enabled, file, cache', w)
    /\ last' = CallRecord(code, language, force_refresh, key, summary, "llm", "ok", w)
    /\ ncalls' = ncalls + 1
    /\ UNCHANGED <<cache_enabled, init_raised>>

\* summarize, lines 160-168: the language-model call raises
SummarizeFallback(code, language, force_refresh, why, w) ==
    LET key == HashCode(code, language)
        fallback == FallbackSummary(code, language)
    IN
    /\ init_raised = "none"
    /\ ncalls < MaxCalls
    /\ ~IsCacheHit(cache_enabled, force_refresh, key, cache)
    /\ llm_calls' = llm_calls + 1
    /\ stats' = CountError(stats)
    /\ cache' = StoreFallback(cache_enabled, cache, key, fallback)
    /\ file' = FileAfterStore(cache_enabled, file, cache', w)
    /\ last' = CallRecord(code, language, force_refresh, key, fallback, "fallback", why, w)
    /\ ncalls' = ncalls + 1
    /\ UNCHANGED <<cache_enabled, init_raised>>

\* summarize, lines 149-168: the language model answers with raw, the
\* answer is counted and stored (lines 151-155), _save_cache raises
\* UnicodeEncodeError on it after truncating the file (line 156), and the
\* except branch counts an error, stores the fallback over the answer and
\* saves again (lines 160-168), with outcome w
SummarizeSaveRaises(code, language, force_refresh, raw, w) ==
    LET key == HashCode(code, language)
        summary == LLMText(raw)
        fallback == FallbackSummary(code, language)
    IN
    /\ init_raised = "none"
    /\ ncalls < MaxCalls
    /\ cache_enabled
    /\ ~IsCacheHit(cache_enabled, force_refresh, key, cache)
    /\ SaveCacheRaises(CachePut(cache, key, summary), "ok")
    /\ llm_calls' = llm_calls + 1
    /\ stats' = CountError(CountApiCall(stats))
    /\ cache' = StoreFallback(cache_enabled, CachePut(cache, key, summary), key, fallback)
    /\ file' = FileAfterStore(cache_enabled, [kind |-> "corrupt"], cache', w)
    /\ last' = CallRecord(code, language, force_refresh, key, fallback, "save_raised",
                          "UnicodeEncodeError", w)
    /\ ncalls' = ncalls + 1
    /\ UNCHANGED <<cache_enabled, init_raised>>

\* clear_cache: the in-memory cache is emptied and the cache file, when it
\* exists, is deleted; cache_enabled is not consulted
ClearCache ==
    /\ init_raised = "none"
    /\ cache' = EmptyCache
    /\ file' = Unlink(file)
    /\ last' = NoCall
    /\ UNCHANGED <<cache_enabled, stats, llm_calls, ncalls, init_raised>>

Next ==
    \/ \E s \in Snippets, fr \in BOOLEAN :
         /\ SummarizeHit(s.code, s.language, fr)
         /\ UNCHANGED <<audioVars, procVars, mainVars, textVars, crawlVars>>
    \/ \E s \in Snippets, fr \in BOOLEAN, raw \in Responses,
            w \in WritesAttempted(cache_enabled) :
         /\ SummarizeLLM(s.code, s.language, fr, raw, w)
         /\ UNCHANGED <<audioVars, procVars, mainVars, textVars, crawlVars>>
    \/ \E s \in Snippets, fr \in BOOLEAN, why \in Failures,
            w \in WritesAttempted(cache_enabled) :
         /\ SummarizeFallback(s.code, s.language, fr, why, w)
         /\ UNCHANGED <<audioVars, procVars, mainVars, textVars, crawlVars>>
    \/ \E s \in Snippets, fr \in BOOLEAN, raw \in UnencodableResponses,
            w \in WriteOutcomes :
         /\ SummarizeSaveRaises(s.code, s.language, fr, raw, w)
         /\ UNCHANGED <<audioVars, procVars, mainVars, textVars, crawlVars>>
    \/ ClearCache /\ UNCHANGED <<audioVars, procVars, mainVars, textVars, crawlVars>>

Spec == Init /\ [][Next]_vars

(***************************************************************************)
(* Part 3: AudioGenerator                                                  *)
(***************************************************************************)

\* characters of the texts explored: two letters, a blank, a newline and
\* a sentence-ending mark
Alphabet == {"a", "b", " ", "\n", "."}

Texts == UNION { [1..n -> Alphabet] : n \in 0..MaxLen }

RECURSIVE SplitAcc(_, _)
\* str.split("\n\n") continued: cur is the piece being collected
SplitAcc(s, cur) ==
    IF s = << >> THEN <<cur>>
    ELSE IF Len(s) >= 2 /\ s[1] = "\n" /\ s[2] = "\n"
         THEN <<cur>> \o SplitAcc(SubSeq(s, 3, Len(s)), << >>)
         ELSE SplitAcc(Tail(s), Append(cur, Head(s)))

\* text.split("\n\n")
SplitParagraphs(s) == SplitAcc(s, << >>)

RECURSIVE SpaceRunEnd(_, _)
\* index of the last character of the whitespace run that starts at i
SpaceRunEnd(s, i) ==
    IF i < Len(s) /\ IsSpace(s[i + 1]) THEN SpaceRunEnd(s, i + 1) ELSE i

RECURSIVE ReSplitAcc(_, _, _)
\* re.split(r'(?<=[.!?])\s+', s) continued from index i
ReSplitAcc(s, i, cur) ==
    IF i > Len(s) THEN <<cur>>
    ELSE IF IsSpace(s[i]) /\ i > 1 /\ s[i - 1] \in {".", "!", "?"}
         THEN <<cur>> \o ReSplitAcc(s, SpaceRunEnd(s, i) + 1, << >>)
         ELSE ReSplitAcc(s, i + 1, Append(cur, s[i]))

\* re.split(r'(?<=[.!?])\s+', text)
ReSplit(s) == ReSplitAcc(s, 1, << >>)

RECURSIVE StripAndFilter(_)
\* [s.strip() for s in sentences if s.strip()]
StripAndFilter(ss) ==
    IF ss = << >> THEN << >>
    ELSE (IF Strip(Head(ss)) # << >> THEN <<Strip(Head(ss))>> ELSE << >>)
         \o StripAndFilter(Tail(ss))

RECURSIVE SplitAtAnySpace(_)
\* a splitter that breaks at every whitespace run, sentence end or not
SplitAtAnySpace(s) ==
    IF LStrip(s) = << >> THEN << >>
    ELSE LET t == LStrip(s)
             n == CHOOSE k \in 1..Len(t) :
                     /\ \A j \in 1..k : ~IsSpace(t[j])
                     /\ (k = Len(t) \/ IsSpace(t[k + 1]))
         IN  <<SubSeq(t, 1, n)>> \o SplitAtAnySpace(SubSeq(t, n + 1, Len(t)))

\* _split_into_sentences
SplitIntoSentences(s) == StripAndFilter(ReSplit(s))

\* the test of line 239 off by one (>= for >)
ParaOverflowsOffByOne(cur, para, max) == Len(cur) + Len(para) + 2 >= max

\* line 239: adding this paragraph would exceed the limit
ParaOverflows(cur, para, max) == Len(cur) + Len(para) + 2 > max

\* a test that closes the running chunk before every sentence
SentenceOverflowsAlways(cur, sentence, max) == TRUE

\* line 248: adding this sentence would exceed the limit
SentenceOverflows(cur, sentence, max) == Len(cur) + Len(sentence) + 1 > max

\* a flush that forgets the running chunk
FlushDropped(cs, cur) == cs

\* "if current_chunk: chunks.append(current_chunk.strip())"
Flush(cs, cur) == IF cur # << >> THEN Append(cs, Strip(cur)) ELSE cs

\* line 257: current_chunk += "\n\n" + para if current_chunk else para
JoinPara(cur, para) == IF cur # << >> THEN cur \o <<"\n", "\n">> \o para ELSE para

\* sentences joined with no blank between them
JoinSentenceNoSpace(cur, sentence) == cur \o sentence

\* line 253: current_chunk += " " + sentence if current_chunk else sentence
JoinSentence(cur, sentence) ==
    IF cur # << >> THEN cur \o <<" ">> \o sentence ELSE sentence

\* the record of the chunks closed inside the loops (lines 240-241 and
\* 249-250): the running chunk that was closed, the unit that was about to
\* be added, and the length of the separator counted with it
Closed(closes, cur, unit, sep) ==
    IF cur # << >> THEN Append(closes, [cur |-> cur, unit |-> unit, sep |-> sep])
    ELSE closes

RECURSIVE PackSentences(_, _, _)
\* lines 247-253: the loop over the sentences of an oversized paragraph;
\* st is [chunks, cur, closes]: the locals chunks and current_chunk, and
\* the record of the chunks closed so far
PackSentences(sentences, st, max) ==
    IF sentences = << >> THEN st
    ELSE LET sentence == Head(sentences) IN
         PackSentences(Tail(sentences),
             IF SentenceOverflows(st.cur, sentence, max)
             THEN [chunks |-> Flush(st.chunks, st.cur), cur |-> sentence,
                   closes |-> Closed(st.closes, st.cur, sentence, 1)]
             ELSE [chunks |-> st.chunks, cur |-> JoinSentence(st.cur, sentence),
                   closes |-> st.closes],
             max)

\* lines 239-257: the body of the loop over paragraphs, for one paragraph
PackParagraph(para, st, max) ==
    IF ParaOverflows(st.cur, para, max)
    THEN LET flushed == [chunks |-> Flush(st.chunks, st.cur), cur |-> << >>,
                         closes |-> Closed(st.closes, st.cur, para, 2)] IN
         IF Len(para) > max
         THEN PackSentences(SplitIntoSentences(para), flushed, max)
         ELSE [chunks |-> flushed.chunks, cur |-> para, closes |-> flushed.closes]
    ELSE [chunks |-> st.chunks, cur |-> JoinPara(st.cur, para), closes |-> st.closes]

RECURSIVE PackParagraphs(_, _, _)
\* lines 237-257: the loop over paragraphs
PackParagraphs(paras, st, max) ==
    IF paras = << >> THEN st
    ELSE PackParagraphs(Tail(paras), PackParagraph(Head(paras), st, max), max)

\* lines 231-257 of _chunk_text: the locals when the loop over the
\* paragraphs is over
PackText(s, max) ==
    PackParagraphs(SplitParagraphs(s), [chunks |-> << >>, cur |-> << >>, closes |-> << >>], max)

\* _chunk_text, with self.MAX_CHARS_PER_REQUEST = max
ChunkText(s, max) ==
    LET st == PackText(s, max)
    IN  Flush(st.chunks, st.cur)

\* the state idle/unchanged of the summarizer
SummarizerIdle ==
    /\ cache_enabled = TRUE
    /\ cache = EmptyCache
    /\ stats = [cache_hits |-> 0, api_calls |-> 0, errors |-> 0]
    /\ file = [kind |-> "missing"]
    /\ llm_calls = 0
    /\ ncalls = 0
    /\ init_raised = "none"
    /\ last = NoCall

\* ---- _chunk_text applied to every text, under every limit ----

ChunkInit ==
    /\ SummarizerIdle
    /\ ProcessorIdle
    /\ MainIdle
    /\ TextIdle
    /\ CrawlIdle
    /\ text \in Texts
    /\ max_chars \in 1..MaxChars
    /\ pc = "call"
    /\ chunks = << >>
    /\ idx = 0
    /\ synth_log = << >>
    /\ audio_chunks = << >>
    /\ stitched = << >>
    /\ out_file = << >>
    /\ gen_stats = [episodes |-> << >>, errors |-> << >>,
                    total_characters |-> 0, total_episodes |-> 0]
    /\ ret = "none"

\* chunks = self._chunk_text(text)
ChunkTextCall ==
    /\ pc = "call"
    /\ chunks' = ChunkText(text, max_chars)
    /\ pc' = "returned"
    /\ UNCHANGED <<text, max_chars, idx, synth_log, audio_chunks, stitched,
                   out_file, gen_stats, ret>>
    /\ UNCHANGED <<sumVars, procVars, mainVars, textVars, crawlVars>>

ChunkNext == ChunkTextCall

ChunkSpec == ChunkInit /\ [][ChunkNext]_vars

\* ---- generate_episode ----

\* _generate_audio(text) when the backend answers: the audio of t, one
\* segment that remembers the text it speaks
GenerateAudio(t) == <<[spoken |-> t]>>

RECURSIVE JoinAudio(_)
\* _concatenate_and_save: combined += segment for each chunk in list order
\* (pydub), or b"".join(audio_chunks) without pydub
JoinAudio(segments) ==
    IF segments = << >> THEN << >>
    ELSE Head(segments) \o JoinAudio(Tail(segments))

\* a loop that walks the chunk list from its end
ChunkAtReversed(cs, i) == cs[Len(cs) + 1 - i]

\* the chunk the loop "for i, chunk in enumerate(chunks, 1)" visits i-th
ChunkAt(cs, i) == cs[i]

\* an add_episode that leaves total_episodes as it was
AddEpisodeUncounted(st, chars) ==
    [st EXCEPT !.total_characters = @ + chars,
               !.episodes = Append(@, [characters |-> chars])]

\* GenerationStats.add_episode
AddEpisode(st, chars) ==
    [st EXCEPT !.total_characters = @ + chars,
               !.total_episodes = @ + 1,
               !.episodes = Append(@, [characters |-> chars])]

\* an add_error that records the failure twice
AddErrorTwice(st, error) ==
    [st EXCEPT !.errors = Append(Append(@, [error |-> error]), [error |-> error])]

\* GenerationStats.add_error
AddError(st, error) == [st EXCEPT !.errors = Append(@, [error |-> error])]

AudioInit ==
    /\ SummarizerIdle
    /\ ProcessorIdle
    /\ MainIdle
    /\ TextIdle
    /\ CrawlIdle
    /\ text \in Texts
    /\ max_chars \in 1..MaxChars
    /\ pc = "start"
    /\ chunks = << >>
    /\ idx = 0
    /\ synth_log = << >>
    /\ audio_chunks = << >>
    /\ stitched = << >>
    /\ out_file = << >>
    /\ gen_stats = [episodes |-> << >>, errors |-> << >>,
                    total_characters |-> 0, total_episodes |-> 0]
    /\ ret = "none"

\* lines 174-178: the except branch, reached from any failing step
Fail(error) ==
    /\ gen_stats' = AddError(gen_stats, error)
    /\ ret' = "False"
    /\ pc' = "done"

\* lines 167-172: the episode is recorded and True returned
Succeed ==
    /\ gen_stats' = AddEpisode(gen_stats, Len(text))
    /\ ret' = "True"
    /\ pc' = "done"

\* line 143: creating the output directory raises
MkdirFails ==
    /\ pc = "start"
    /\ Fail("mkdir")
    /\ UNCHANGED <<text, max_chars, chunks, idx, synth_log, audio_chunks,
                   stitched, out_file>>

\* lines 149-152 then 167-172: the text fits one request, the backend
\* answers and the file is written
SingleRequest ==
    /\ pc = "start"
    /\ Len(text) <= max_chars
    /\ synth_log' = Append(synth_log, text)
    /\ out_file' = <<GenerateAudio(text)>>
    /\ Succeed
    /\ UNCHANGED <<text, max_chars, chunks, idx, audio_chunks, stitched>>

\* lines 149-151: the text fits one request and the backend call raises
SingleRequestFails ==
    /\ pc = "start"
    /\ Len(text) <= max_chars
    /\ synth_log' = Append(synth_log, text)
    /\ Fail("synthesis")
    /\ UNCHANGED <<text, max_chars, chunks, idx, audio_chunks, stitched, out_file>>

\* lines 149-152: the backend answers and writing the file raises
SingleSaveFails ==
    /\ pc = "start"
    /\ Len(text) <= max_chars
    /\ synth_log' = Append(synth_log, text)
    /\ Fail("save")
    /\ UNCHANGED <<text, max_chars, chunks, idx, audio_chunks, stitched, out_file>>

\* lines 153-158: the text is too long and is chunked
BeginChunked ==
    /\ pc = "start"
    /\ Len(text) > max_chars
    /\ chunks' = ChunkText(text, max_chars)
    /\ audio_chunks' = << >>
    /\ idx' = 0
    /\ pc' = "loop"
    /\ UNCHANGED <<text, max_chars, synth_log, stitched, out_file, gen_stats, ret>>

\* lines 159-162: one iteration of the loop, the backend answers
SynthesizeChunk ==
    /\ pc = "loop"
    /\ idx < Len(chunks)
    /\ LET chunk == ChunkAt(chunks, idx + 1) IN
         /\ synth_log' = Append(synth_log, chunk)
         /\ audio_chunks' = Append(audio_chunks, GenerateAudio(chunk))
    /\ idx' = idx + 1
    /\ UNCHANGED <<text, max_chars, chunks, pc, stitched, out_file, gen_stats, ret>>

\* lines 159-161: one iteration of the loop, the backend call raises
SynthesizeChunkFails ==
    /\ pc = "loop"
    /\ idx < Len(chunks)
    /\ synth_log' = Append(synth_log, ChunkAt(chunks, idx + 1))
    /\ Fail("synthesis")
    /\ UNCHANGED <<text, max_chars, chunks, idx, audio_chunks, stitched, out_file>>

\* lines 164-172: the loop is over, the segments are joined and saved
ConcatenateAndSave ==
    /\ pc = "loop"
    /\ idx = Len(chunks)
    /\ stitched' = <<audio_chunks>>
    /\ out_file' = <<JoinAudio(audio_chunks)>>
    /\ Succeed
    /\ UNCHANGED <<text, max_chars, chunks, idx, synth_log, audio_chunks>>

\* line 165: joining or writing the file raises
ConcatenateFails ==
    /\ pc = "loop"
    /\ idx = Len(chunks)
    /\ stitched' = <<audio_chunks>>
    /\ Fail("save")
    /\ UNCHANGED <<text, max_chars, chunks, idx, synth_log, audio_chunks, out_file>>

AudioNext ==
    \/ MkdirFails /\ UNCHANGED <<sumVars, procVars, mainVars, textVars, crawlVars>>
    \/ SingleRequest /\ UNCHANGED <<sumVars, procVars, mainVars, textVars, crawlVars>>
    \/ SingleRequestFails /\ UNCHANGED <<sumVars, procVars, mainVars, textVars, crawlVars>>
    \/ SingleSaveFails /\ UNCHANGED <<sumVars, procVars, mainVars, textVars, crawlVars>>
    \/ BeginChunked /\ UNCHANGED <<sumVars, procVars, mainVars, textVars, crawlVars>>
    \/ SynthesizeChunk /\ UNCHANGED <<sumVars, procVars, mainVars, textVars, crawlVars>>
    \/ SynthesizeChunkFails /\ UNCHANGED <<sumVars, procVars, mainVars, textVars, crawlVars>>
    \/ ConcatenateAndSave /\ UNCHANGED <<sumVars, procVars, mainVars, textVars, crawlVars>>
    \/ ConcatenateFails /\ UNCHANGED <<sumVars, procVars, mainVars, textVars, crawlVars>>

AudioSpec == AudioInit /\ [][AudioNext]_vars

\* Several generate_episode calls on one AudioGenerator, as the loops of
\* main.py make them: self.stats lives as long as the generator, every
\* call starts with its own text.

\* the number of generate_episode calls followed
MaxEpisodes == 3

\* the texts of the episodes: one that fits a request, two that are chunked
EpisodeTexts ==
    { <<"a", "b">>,
      <<"a", "b", "\n", "\n", "c", "d">>,
      <<"a", ".", " ", "b", ".", " ", "c", ".">> }

\* the generator is constructed (stats = GenerationStats()) and the first
\* call is entered
EpisodesInit ==
    /\ SummarizerIdle
    /\ ProcessorIdle
    /\ MainIdle
    /\ TextIdle
    /\ CrawlIdle
    /\ text \in EpisodeTexts
    /\ max_chars = MAX_CHARS_PER_REQUEST
    /\ pc = "start"
    /\ chunks = << >>
    /\ idx = 0
    /\ synth_log = << >>
    /\ audio_chunks = << >>
    /\ stitched = << >>
    /\ out_file = << >>
    /\ gen_stats = [episodes |-> << >>, errors |-> << >>,
                    total_characters |-> 0, total_episodes |-> 0]
    /\ ret = "none"

\* the number of generate_episode calls that have returned
CallsReturned(st) == Len(st.episodes) + Len(st.errors)

\* the caller's loop enters generate_episode again, with text t: the
\* locals of the call are fresh, self.stats is kept
NextEpisode(t) ==
    /\ pc = "done"
    /\ CallsReturned(gen_stats) < MaxEpisodes
    /\ text' = t
    /\ pc' = "start"
    /\ chunks' = << >>
    /\ idx' = 0
    /\ synth_log' = << >>
    /\ audio_chunks' = << >>
    /\ stitched' = << >>
    /\ out_file' = << >>
    /\ ret' = "none"
    /\ UNCHANGED <<max_chars, gen_stats>>

EpisodesNext ==
    \/ AudioNext
    \/ \E t \in EpisodeTexts :
         NextEpisode(t) /\ UNCHANGED <<sumVars, procVars, mainVars, textVars, crawlVars>>

EpisodesSpec == EpisodesInit /\ [][EpisodesNext]_vars

(***************************************************************************)
(* Part 4: ContentProcessor (src/processor.py): _process_code_blocks,      *)
(*         _describe_code_block, _rule_based_summary, _extract_text and    *)
(*         _clean_for_audio on small documents            -- ProcessorSpec *)
(***************************************************************************)

\* ContentProcessor.LANGUAGE_NAMES, as <<key, value>> pairs
LANGUAGE_NAMES ==
    { <<<<"p", "y", "t", "h", "o", "n">>, <<"P", "y", "t", "h", "o", "n">>>>,
      <<<<"p", "y">>, <<"P", "y", "t", "h", "o", "n">>>>,
      <<<<"j", "a", "v", "a", "s", "c", "r", "i", "p", "t">>, <<"J", "a", "v", "a", "S", "c", "r", "i", "p", "t">>>>,
      <<<<"j", "s">>, <<"J", "a", "v", "a", "S", "c", "r", "i", "p", "t">>>>,
      <<<<"j", "s", "x">>, <<"J", "a", "v", "a", "S", "c", "r", "i", "p", "t">>>>,
      <<<<"t", "y", "p", "e", "s", "c", "r", "i", "p", "t">>, <<"T", "y", "p", "e", "S", "c", "r", "i", "p", "t">>>>,
      <<<<"t", "s">>, <<"T", "y", "p", "e", "S", "c", "r", "i", "p", "t">>>>,
      <<<<"t", "s", "x">>, <<"T", "y", "p", "e", "S", "c", "r", "i", "p", "t">>>>,
      <<<<"b", "a", "s", "h">>, <<"B", "a", "s", "h">>>>,
      <<<<"s", "h">>, <<"s", "h", "e", "l", "l">>>>,
      <<<<"s", "h", "e", "l", "l">>, <<"s", "h", "e", "l", "l">>>>,
      <<<<"s", "q", "l">>, <<"S", "Q", "L">>>>,
      <<<<"j", "s", "o", "n">>, <<"J", "S", "O", "N">>>>,
      <<<<"h", "t", "m", "l">>, <<"H", "T", "M", "L">>>>,
      <<<<"c", "s", "s">>, <<"C", "S", "S">>>>,
      <<<<"y", "a", "m", "l">>, <<"Y", "A", "M", "L">>>>,
      <<<<"y", "m", "l">>, <<"Y", "A", "M", "L">>>>,
      <<<<"m", "a", "r", "k", "d", "o", "w", "n">>, <<"M", "a", "r", "k", "d", "o", "w", "n">>>>,
      <<<<"m", "d">>, <<"M", "a", "r", "k", "d", "o", "w", "n">>>>,
      <<<<"g", "i", "t">>, <<"G", "i", "t">>>>,
      <<<< >>, <<"c", "o", "d", "e">>>> }

\* LANGUAGE_NAMES.get(language.lower(), language or "code")
LanguageName(language) ==
    LET key == Lower(language)
        default == IF language # << >> THEN language ELSE <<"c", "o", "d", "e">>
    IN  IF \E e \in LANGUAGE_NAMES : e[1] = key
        THEN (CHOOSE e \in LANGUAGE_NAMES : e[1] = key)[2]
        ELSE default

\* _describe_code_block, lines 196-198: the text returned when code is not
\* summarized
Placeholder(language) ==
    <<"[">> \o LanguageName(language) \o
      <<" ", "c", "o", "d", "e", " ", "e", "x", "a", "m", "p", "l", "e", " ",
        "-", " ", "s", "e", "e", " ", "t", "h", "e", " ", "a", "r", "t", "i",
        "c", "l", "e", " ", "f", "o", "r", " ", "d", "e", "t", "a", "i", "l",
        "s", "]">>

\* the characters \w matches, among those the model's texts are made of
WordChars ==
    { "a", "b", "c", "d", "e", "f", "g", "h", "i", "j", "k", "l", "m",
      "n", "o", "p", "q", "r", "s", "t", "u", "v", "w", "x", "y", "z",
      "A", "B", "C", "D", "E", "F", "G", "H", "I", "J", "K", "L", "M",
      "N", "O", "P", "Q", "R", "S", "T", "U", "V", "W", "X", "Y", "Z",
      "0", "1", "2", "3", "4", "5", "6", "7", "8", "9", "_" }

IsWord(c) == c \in WordChars

\* str.startswith(prefix)
StartsWith(s, prefix) == Len(s) >= Len(prefix) /\ SubSeq(s, 1, Len(prefix)) = prefix

RECURSIVE SpaceRunLen(_)
\* length of the longest prefix of s that \s* matches
SpaceRunLen(s) == IF s # << >> /\ IsSpace(Head(s)) THEN 1 + SpaceRunLen(Tail(s)) ELSE 0

RECURSIVE WordRunLen(_)
\* length of the longest prefix of s that \w* matches
WordRunLen(s) == IF s # << >> /\ IsWord(Head(s)) THEN 1 + WordRunLen(Tail(s)) ELSE 0

\* s without its first n characters
Drop(s, n) == SubSeq(s, n + 1, Len(s))

\* re.match(kw + r"\s+(\w+)", s): <<group 1>>, or << >> when s does not match
MatchKeywordName(s, kw) ==
    IF ~StartsWith(s, kw) THEN << >>
    ELSE LET rest == Drop(s, Len(kw))
             ws == SpaceRunLen(rest)
             name == WordRunLen(Drop(rest, ws))
         IN  IF ws >= 1 /\ name >= 1 THEN <<SubSeq(rest, ws + 1, ws + name)>> ELSE << >>

RECURSIVE SearchKeywordName(_, _)
\* re.search(r"(?:k1|k2|...)\s+(\w+)", s) for the keywords kws, tried in
\* order at each position: <<group 1>> of the leftmost match, or << >>
SearchKeywordName(s, kws) ==
    LET here == SelectSeq([i \in 1..Len(kws) |-> MatchKeywordName(s, kws[i])],
                          LAMBDA r : r # << >>)
    IN  IF here # << >> THEN here[1]
        ELSE IF s = << >> THEN << >>
        ELSE SearchKeywordName(Tail(s), kws)


RECURSIVE WordSpaceRunLen(_)
\* length of the longest prefix of s that [\w\s]* matches
WordSpaceRunLen(s) ==
    IF s # << >> /\ (IsWord(Head(s)) \/ IsSpace(Head(s)))
    THEN 1 + WordSpaceRunLen(Tail(s)) ELSE 0

\* the match of (?:##\s*|^\*\*)([\w\s]+)(?:\*\*)? that starts at index i of s
\* (re.MULTILINE): its length, 0 when there is none, and its group 1.  A
\* heading whose text is all whitespace leaves the last blank to the group.
HeaderMatchAt(s, i) ==
    LET rest == Drop(s, i - 1)
        hashes == StartsWith(rest, <<"#", "#">>)
        stars == StartsWith(rest, <<"*", "*">>) /\ (i = 1 \/ s[i - 1] = "\n")
        after == Drop(rest, 2)
        run == WordSpaceRunLen(after)
        ws == SpaceRunLen(after)
        closing == IF StartsWith(Drop(after, run), <<"*", "*">>) THEN 2 ELSE 0
    IN  IF (hashes \/ stars) /\ run >= 1
        THEN [len |-> 2 + run + closing,
              group |-> IF stars THEN SubSeq(after, 1, run)
                        ELSE IF ws < run THEN SubSeq(after, ws + 1, run)
                        ELSE SubSeq(after, run, run)]
        ELSE [len |-> 0, group |-> << >>]

RECURSIVE FindHeaders(_, _)
\* re.findall of the header pattern in s, from index i on
FindHeaders(s, i) ==
    IF i > Len(s) THEN << >>
    ELSE LET m == HeaderMatchAt(s, i) IN
         IF m.len > 0 THEN <<m.group>> \o FindHeaders(s, i + m.len)
         ELSE FindHeaders(s, i + 1)

RECURSIVE JoinWith(_, _)
\* sep.join(parts)
JoinWith(parts, sep) ==
    IF parts = << >> THEN << >>
    ELSE IF Len(parts) = 1 THEN parts[1]
    ELSE parts[1] \o sep \o JoinWith(Tail(parts), sep)

\* _rule_based_summary, lines 233-239: the sentence for the headers found
TemplateSentence(headers) ==
    LET first == SubSeq(headers, 1, IF Len(headers) > 4 THEN 4 ELSE Len(headers))
        sections == JoinWith([k \in 1..Len(first) |-> Strip(first[k])], <<",", " ">>)
                    \o (IF Len(headers) > 4 THEN <<",", " ", "a", "n", "d", " ", "m", "o", "r", "e">> ELSE << >>)
    IN  <<"H", "e", "r", "e", " ", "i", "s", " ", "a", " ", "t", "e", "m",
            "p", "l", "a", "t", "e", " ", "t", "h", "a", "t", " ", "i", "n",
            "c", "l", "u", "d", "e", "s", " ", "s", "e", "c", "t", "i", "o",
            "n", "s", " ", "f", "o", "r", ":", " ">>
        \o sections \o <<".">>

\* _rule_based_summary, lines 243-255: the sentence for version-control
\* commands, by the first verb found in the lower-cased code
GitSentence(code_lower, lang_name) ==
    <<"H", "e", "r", "e", " ", "w", "e", " ", "h", "a", "v", "e", " ">> \o lang_name \o
    (     IF Contains(code_lower, <<"c", "o", "m", "m", "i", "t">>)
          THEN <<" ", "c", "o", "m", "m", "a", "n", "d", "s", " ", "s", "h", "o",
            "w", "i", "n", "g", " ", "h", "o", "w", " ", "t", "o", " ", "c",
            "o", "m", "m", "i", "t", " ", "c", "h", "a", "n", "g", "e", "s",
            ".">>
     ELSE IF Contains(code_lower, <<"c", "h", "e", "c", "k", "o", "u", "t">>)
          THEN <<" ", "c", "o", "m", "m", "a", "n", "d", "s", " ", "f", "o", "r",
            " ", "s", "w", "i", "t", "c", "h", "i", "n", "g", " ", "b", "r",
            "a", "n", "c", "h", "e", "s", ".">>
     ELSE IF Contains(code_lower, <<"r", "e", "s", "t", "o", "r", "e">>)
          THEN <<" ", "c", "o", "m", "m", "a", "n", "d", "s", " ", "f", "o", "r",
            " ", "r", "e", "s", "t", "o", "r", "i", "n", "g", " ", "f", "i",
            "l", "e", "s", ".">>
     ELSE IF Contains(code_lower, <<"d", "i", "f", "f">>)
          THEN <<" ", "c", "o", "m", "m", "a", "n", "d", "s", " ", "f", "o", "r",
            " ", "v", "i", "e", "w", "i", "n", "g", " ", "c", "h", "a", "n",
            "g", "e", "s", ".">>
     ELSE IF Contains(code_lower, <<"s", "t", "a", "s", "h">>)
          THEN <<" ", "c", "o", "m", "m", "a", "n", "d", "s", " ", "f", "o", "r",
            " ", "s", "t", "a", "s", "h", "i", "n", "g", " ", "c", "h", "a",
            "n", "g", "e", "s", ".">>
     ELSE <<" ", "c", "o", "m", "m", "a", "n", "d", "s", " ", "f", "o", "r",
            " ", "G", "i", "t", " ", "o", "p", "e", "r", "a", "t", "i", "o",
            "n", "s", ".">>)

\* "Next is a {lang_name} {kind} called {name}." / "... {kind} definition."
NamedSentence(lang_name, kind, found) ==
    <<"N", "e", "x", "t", " ", "i", "s", " ", "a", " ">> \o lang_name \o <<" ">> \o kind \o
    (IF found # << >> THEN <<" ", "c", "a", "l", "l", "e", "d", " ">> \o found[1] \o <<".">>
     ELSE <<" ", "d", "e", "f", "i", "n", "i", "t", "i", "o", "n", ".">>)

\* a rule-based summary that has nothing to say
RuleBasedSummaryEmpty(code_text, language) == << >>

\* _rule_based_summary
RuleBasedSummary(code_text, language) ==
    LET lang_name == LanguageName(language)
        num_lines == CountChar(Strip(code_text), "\n") + 1
        headers == FindHeaders(code_text, 1)
        stripped == Strip(code_text)
    IN
    IF (Contains(code_text, <<"#", "#">>) \/ Contains(code_text, <<"*", "*">>))
       /\ headers # << >>
    THEN TemplateSentence(headers)
    ELSE IF Contains(Lower(code_text), <<"g", "i", "t", " ">>)
    THEN GitSentence(Lower(code_text), lang_name)
    ELSE IF Contains(code_text, <<"d", "e", "f", " ">>)
            \/ Contains(code_text, <<"f", "u", "n", "c", "t", "i", "o", "n", " ">>)
    THEN NamedSentence(lang_name, <<"f", "u", "n", "c", "t", "i", "o", "n">>,
             SearchKeywordName(code_text, << <<"d", "e", "f">>, <<"f", "u", "n", "c", "t", "i", "o", "n">> >>))
    ELSE IF Contains(code_text, <<"c", "l", "a", "s", "s", " ">>)
    THEN NamedSentence(lang_name, <<"c", "l", "a", "s", "s">>,
             SearchKeywordName(code_text, << <<"c", "l", "a", "s", "s">> >>))
    ELSE IF StartsWith(stripped, <<"#">>) \/ StartsWith(stripped, <<"/", "/">>)
    THEN <<"H", "e", "r", "e", " ", "i", "s", " ", "a", " ">> \o lang_name \o
         <<" ", "t", "e", "m", "p", "l", "a", "t", "e", " ", "o", "r", " ",
            "c", "o", "n", "f", "i", "g", "u", "r", "a", "t", "i", "o", "n",
            " ", "e", "x", "a", "m", "p", "l", "e", ".">>
    ELSE IF Contains(code_text, <<"i", "m", "p", "o", "r", "t", " ">>)
            \/ Contains(code_text, <<"f", "r", "o", "m", " ">>)
            \/ Contains(code_text, <<"r", "e", "q", "u", "i", "r", "e", "(">>)
    THEN <<"H", "e", "r", "e", " ", "w", "e", " ", "h", "a", "v", "e", " ",
            "s", "o", "m", "e", " ">> \o lang_name \o
         <<" ", "i", "m", "p", "o", "r", "t", "s", " ", "a", "n", "d", " ",
            "s", "e", "t", "u", "p", " ", "c", "o", "d", "e", ".">>
    ELSE IF num_lines > 10
    THEN <<"H", "e", "r", "e", " ", "i", "s", " ", "a", " ">> \o lang_name \o
         <<" ", "e", "x", "a", "m", "p", "l", "e", " ", "s", "p", "a", "n",
            "n", "i", "n", "g", " ", "a", "b", "o", "u", "t", " ">> \o DecStr(num_lines) \o <<" ", "l", "i", "n", "e", "s", ".">>
    ELSE IF lang_name = <<"c", "o", "d", "e">>
    THEN <<"H", "e", "r", "e", " ", "i", "s", " ", "a", " ", "c", "o", "d",
            "e", " ", "e", "x", "a", "m", "p", "l", "e", ".">>
    ELSE <<"H", "e", "r", "e", " ", "i", "s", " ", "a", " ">> \o lang_name \o <<" ", "c", "o", "d", "e", " ", "e", "x", "a", "m", "p", "l", "e",
            ".">>

RECURSIVE ReplaceAll(_, _, _)
\* str.replace(old, new), old not empty
ReplaceAll(s, old, new) ==
    IF s = << >> THEN << >>
    ELSE IF StartsWith(s, old) THEN new \o ReplaceAll(Drop(s, Len(old)), old, new)
    ELSE <<Head(s)>> \o ReplaceAll(Tail(s), old, new)

RECURSIVE DetectLanguage(_)
\* _detect_language: the first class that starts with language- or lang-,
\* with every occurrence of that prefix removed; "" when there is none
DetectLanguage(classes) ==
    IF classes = << >> THEN << >>
    ELSE IF StartsWith(Head(classes), <<"l", "a", "n", "g", "u", "a", "g", "e", "-">>)
    THEN ReplaceAll(Head(classes), <<"l", "a", "n", "g", "u", "a", "g", "e", "-">>, << >>)
    ELSE IF StartsWith(Head(classes), <<"l", "a", "n", "g", "-">>)
    THEN ReplaceAll(Head(classes), <<"l", "a", "n", "g", "-">>, << >>)
    ELSE DetectLanguage(Tail(classes))

\* Bound: number of elements of a document
MaxElems == 3

\* An element of the parsed document: a pre block (spans: its one child,
\* a code tag with its class list, or bare text) or a paragraph (spans: its
\* children, text nodes and inline code tags).
PreCode(classes, code) ==
    [tag |-> "pre", spans |-> <<[code |-> TRUE, classes |-> classes, text |-> code]>>]

PreBare(code) ==
    [tag |-> "pre", spans |-> <<[code |-> FALSE, classes |-> << >>, text |-> code]>>]

Paragraph(spans) == [tag |-> "p", spans |-> spans]

TextNode(t) == [code |-> FALSE, classes |-> << >>, text |-> t]

InlineCode(t) == [code |-> TRUE, classes |-> << >>, text |-> t]

\* a shell snippet under a markdown heading: git commit / ## Notes
GitNotesCode ==
    <<"g", "i", "t", " ", "c", "o", "m", "m", "i", "t", "\n",
      "#", "#", " ", "N", "o", "t", "e", "s">>

\* The elements documents are made of: a block tagged language-python, the
\* git snippet tagged lang-bash after another class, a pre without a code
\* tag holding the git snippet with a markdown heading, and a paragraph
\* with an inline code span.
Elements ==
    { PreCode(<<<<"l", "a", "n", "g", "u", "a", "g", "e", "-", "p", "y", "t", "h",
            "o", "n">>>>, <<"c">>),
      PreCode(<<<<"h", "l">>, <<"l", "a", "n", "g", "-", "b", "a", "s", "h">>>>, GitCommitCode),
      PreBare(GitNotesCode),
      Paragraph(<<TextNode(<<"a", " ">>), InlineCode(<<"c">>)>>) }

\* number of pre elements of a document
PreCount(doc) == Cardinality({ i \in DOMAIN doc : doc[i].tag = "pre" })

\* the documents explored: every sequence of up to MaxElems elements in
\* which the summarizer is needed at most MaxCalls times
Documents ==
    { d \in UNION { [1..n -> Elements] : n \in 0..MaxElems } : PreCount(d) <= MaxCalls }

\* a loop that visits the pre elements from the end of the document
NextPreFromEnd(doc) == CHOOSE i \in DOMAIN doc :
                          /\ doc[i].tag = "pre"
                          /\ \A j \in (i + 1)..Len(doc) : doc[j].tag # "pre"

\* the index of the pre the loop of _process_code_blocks visits next
NextPre(doc) == CHOOSE i \in DOMAIN doc :
                   /\ doc[i].tag = "pre"
                   /\ \A j \in 1..(i - 1) : doc[j].tag # "pre"

HasPre(doc) == \E i \in DOMAIN doc : doc[i].tag = "pre"

\* lines 150-153 and 160-161: the code text of a pre
CodeText(pre) == pre.spans[1].text

\* lines 152 and 162: the language of a pre, "" without a code tag
CodeLanguage(pre) ==
    IF pre.spans[1].code THEN DetectLanguage(pre.spans[1].classes) ELSE << >>

\* lines 156-158 and 163-165: the pre at index i replaced by a paragraph
\* whose string is the description
ReplaceWithParagraph(doc, i, description) ==
    [doc EXCEPT ![i] = Paragraph(<<TextNode(description)>>)]

\* lines 168-171: every remaining code tag replaced by its text
UnwrapInlineCode(doc) ==
    [i \in DOMAIN doc |->
        [doc[i] EXCEPT !.spans = [k \in DOMAIN doc[i].spans |->
                                     TextNode(doc[i].spans[k].text)]]]

\* the stripped, non-empty strings of an element, in order
StrippedStrings(el) ==
    SelectSeq([k \in DOMAIN el.spans |-> Strip(el.spans[k].text)],
              LAMBDA t : t # << >>)

\* element.get_text(separator=" ", strip=True)
GetText(el) == JoinWith(StrippedStrings(el), <<" ">>)

RECURSIVE AllStrings(_)
\* the stripped, non-empty strings of a document, in order
AllStrings(doc) ==
    IF doc = << >> THEN << >> ELSE StrippedStrings(Head(doc)) \o AllStrings(Tail(doc))

\* _extract_text: the texts of the paragraphs that have one, joined by
\* blank lines; without any, every string of the document joined by "\n"
ExtractText(doc) ==
    LET paragraphs == SelectSeq([i \in DOMAIN doc |-> GetText(doc[i])],
                                LAMBDA t : t # << >>)
    IN  IF paragraphs = << >> THEN JoinWith(AllStrings(doc), <<"\n">>)
        ELSE JoinWith(paragraphs, <<"\n", "\n">>)

\* _clean_for_audio, line 310: text.replace("[", "").replace("]", "")
RemoveBrackets(s) == SelectSeq(s, LAMBDA c : c \notin {"[", "]"})

\* re.sub(c{n,}, n - 1 times c): runs of n or more c are cut to n - 1, by
\* dropping every c that has n - 1 more of them right after it
CollapseRuns(s, c, n) ==
    LET Kept(i) == ~(i + n - 1 <= Len(s) /\ \A k \in i..(i + n - 1) : s[k] = c)
        keep == SelectSeq([i \in 1..Len(s) |-> i], Kept)
    IN  [k \in 1..Len(keep) |-> s[keep[k]]]

\* str.split("\n"): the pieces between consecutive newlines
SplitLines(s) ==
    LET IsNewline(i) == s[i] = "\n"
        nl == SelectSeq([i \in 1..Len(s) |-> i], IsNewline)
        From(k) == IF k = 1 THEN 1 ELSE nl[k - 1] + 1
        To(k) == IF k = Len(nl) + 1 THEN Len(s) ELSE nl[k] - 1
    IN  [k \in 1..(Len(nl) + 1) |-> SubSeq(s, From(k), To(k))]

\* _clean_for_audio, lines 347-351: lines stripped, empty ones dropped,
\* the rest joined by blank lines
CleanLines(s) ==
    LET lines == SplitLines(s)
        kept == SelectSeq([k \in DOMAIN lines |-> Strip(lines[k])], LAMBDA l : l # << >>)
    IN  JoinWith(kept, <<"\n", "\n">>)

\* a _clean_for_audio that leaves square brackets in the text
CleanForAudioKeepingBrackets(s) ==
    CleanLines(CollapseRuns(CollapseRuns(s, "\n", 3), " ", 2))

\* _clean_for_audio on the texts the documents give: letters, digits,
\* blanks, newlines and the marks . - [ ] of the descriptions.  Of its
\* substitutions these can act on such texts: the removal of square
\* brackets, the collapsing of newlines and of spaces, and the clean-up of
\* lines.  The others need a [Code Example: marker, a URL, an e-mail
\* address, a glyph, a markdown mark, a word/word path, a .ext extension
\* or a line that is a lone dash, none of which these texts hold.
CleanForAudio(s) ==
    CleanLines(CollapseRuns(CollapseRuns(RemoveBrackets(s), "\n", 3), " ", 2))

\* _create_outro, line 364: the last day of the series
FINAL_DAY == 31

\* the day arguments of process explored: the days around the last one
DayInputs == {FINAL_DAY - 1, FINAL_DAY, FINAL_DAY + 1}

\* the date argument of process explored
Dates == { <<"J", "a", "n", " ", "5", ",", " ", "2", "0", "2", "6">> }

\* the title argument of process explored: a title with a Day N: prefix
Titles == { <<"D", "a", "y", " ", "1", ":", " ", "T">> }

Digits == {"0", "1", "2", "3", "4", "5", "6", "7", "8", "9"}

RECURSIVE DigitRunLen(_)
\* length of the longest prefix of s made of digits
DigitRunLen(s) ==
    IF s # << >> /\ Head(s) \in Digits THEN 1 + DigitRunLen(Tail(s)) ELSE 0

\* re.sub(r"^Day\s+\d+:\s*", "", title) (lines 88 and 355)
CleanTitle(title) ==
    LET after_day == Drop(title, 3)
        ws == SpaceRunLen(after_day)
        after_ws == Drop(after_day, ws)
        ds == DigitRunLen(after_ws)
        after_ds == Drop(after_ws, ds)
    IN  IF StartsWith(title, <<"D", "a", "y">>) /\ ws >= 1 /\ ds >= 1
           /\ StartsWith(after_ds, <<":">>)
        THEN LStrip(Drop(after_ds, 1))
        ELSE title

\* _create_intro
CreateIntro(day, title) ==
    <<"W", "e", "l", "c", "o", "m", "e", " ", "t", "o", " ", "D", "a", "y", " ">>
    \o DecStr(day) \o
    <<" ", "o", "f", " ", "3", "1", " ", "D", "a", "y", "s", " ", "o", "f", " ",
      "V", "i", "b", "e", " ", "C", "o", "d", "i", "n", "g", ".", " ",
      "T", "o", "d", "a", "y", "'", "s", " ", "t", "o", "p", "i", "c", " ",
      "i", "s", ":", " ">>
    \o CleanTitle(title) \o <<".">>

\* _create_outro, lines 366-368: the statement naming the next day
NextDayOutro(day) ==
    <<"T", "h", "a", "t", "'", "s", " ", "i", "t", " ", "f", "o", "r", " ",
      "D", "a", "y", " ">> \o DecStr(day) \o
    <<".", " ", "J", "o", "i", "n", " ", "u", "s", " ", "t", "o", "m", "o", "r",
      "r", "o", "w", " ", "f", "o", "r", " ", "D", "a", "y", " ">> \o DecStr(day + 1) \o
    <<".", " ", "T", "h", "a", "n", "k", "s", " ", "f", "o", "r", " ", "l", "i",
      "s", "t", "e", "n", "i", "n", "g", " ", "t", "o", " ", "3", "1", " ",
      "D", "a", "y", "s", " ", "o", "f", " ", "V", "i", "b", "e", " ",
      "C", "o", "d", "i", "n", "g", ".">>

\* _create_outro, lines 372-374: the statement that the series is complete
CompletionOutro ==
    <<"C", "o", "n", "g", "r", "a", "t", "u", "l", "a", "t", "i", "o", "n", "s",
      "!", " ", "Y", "o", "u", "'", "v", "e", " ", "c", "o", "m", "p", "l", "e",
      "t", "e", "d", " ", "3", "1", " ", "D", "a", "y", "s", " ", "o", "f", " ",
      "V", "i", "b", "e", " ", "C", "o", "d", "i", "n", "g", ".", " ",
      "T", "h", "a", "n", "k", "s", " ", "f", "o", "r", " ", "l", "i", "s", "t",
      "e", "n", "i", "n", "g", " ", "t", "o", " ", "t", "h", "e", " ", "e", "n",
      "t", "i", "r", "e", " ", "s", "e", "r", "i", "e", "s", ".", " ",
      "N", "o", "w", " ", "g", "o", " ", "b", "u", "i", "l", "d", " ", "s", "o",
      "m", "e", "t", "h", "i", "n", "g", " ", "a", "m", "a", "z", "i", "n", "g",
      " ", "w", "i", "t", "h", " ", "A", "I", ".">>

\* _create_outro
CreateOutro(day) ==
    IF day < FINAL_DAY THEN NextDayOutro(day) ELSE CompletionOutro

\* process, lines 106-111: intro, cleaned text and outro joined by blank lines
FullText(day, title, cleaned) ==
    CreateIntro(day, title) \o <<"\n", "\n">> \o cleaned \o <<"\n", "\n">> \o CreateOutro(day)

\* len(full_text.split()): the number of maximal runs of non-blank characters
WordCount(s) ==
    Cardinality({ i \in 1..Len(s) : ~IsSpace(s[i]) /\ (i = 1 \/ IsSpace(s[i - 1])) })

\* process, lines 113-120: the ProcessedArticle returned
ProcessedArticle(day, title, date, full_text) ==
    [day |-> day, title |-> title, date |-> date, text |-> full_text,
     char_count |-> Len(full_text), word_count |-> WordCount(full_text)]

\* Cache files the processor's summarizer may start from: none, or a
\* mapping that already holds a summary of the git snippet
ProcessorFiles ==
    { [kind |-> "missing"],
      [kind |-> "json",
       data |-> CachePut(EmptyCache, HashCode(GitCommitCode, <<"b", "a", "s", "h">>),
                         <<"T">>)] }

\* "self.use_llm and self.llm_summarizer" (line 201)
LLMInUse == use_llm /\ llm_summarizer # "None"

\* ContentProcessor.__init__ with every combination of its arguments, then
\* process up to the parsed document (line 90); the summarizer handed in
\* was constructed with caching enabled
ProcessorInit ==
    /\ cache_enabled = TRUE
    /\ file \in ProcessorFiles
    /\ cache = LoadCache(file)
    /\ stats = [cache_hits |-> 0, api_calls |-> 0, errors |-> 0]
    /\ llm_calls = 0
    /\ ncalls = 0
    /\ init_raised = "none"
    /\ last = NoCall
    /\ AudioIdle
    /\ MainIdle
    /\ TextIdle
    /\ CrawlIdle
    /\ summarize_code \in BOOLEAN
    /\ use_llm \in BOOLEAN
    /\ llm_summarizer \in {"None", "CodeSummarizer"}
    /\ force_resummarize \in BOOLEAN
    /\ soup \in Documents
    /\ ppc = "blocks"
    /\ described = << >>
    /\ summarize_log = << >>
    /\ body = << >>
    /\ article = << >>

\* what a test harness sees of one _describe_code_block call: its
\* arguments, the text returned and the branch that produced it (by:
\* "placeholder", "summarizer", "rule_based_after_raise" or "rule_based")
Description(code_text, language, description, by) ==
    [code |-> code_text, language |-> language, text |-> description, by |-> by]

\* _process_code_blocks, one iteration of the loop over the pre elements
\* (lines 149-165): the next pre is replaced by a paragraph holding the
\* description
ReplacePre(description, by) ==
    LET i == NextPre(soup) IN
    /\ soup' = ReplaceWithParagraph(soup, i, description)
    /\ described' = Append(described,
                           Description(CodeText(soup[i]), CodeLanguage(soup[i]),
                                       description, by))
    /\ UNCHANGED <<summarize_code, use_llm, llm_summarizer, force_resummarize, ppc, body,
                   article>>

\* the summarize call of lines 203-208 is recorded
LogSummarize ==
    LET i == NextPre(soup) IN
    summarize_log' = Append(summarize_log,
                            [code |-> CodeText(soup[i]), language |-> CodeLanguage(soup[i]),
                             force_refresh |-> force_resummarize])

\* _describe_code_block, lines 196-198: code is not summarized
DescribeDisabled ==
    /\ ppc = "blocks" /\ HasPre(soup)
    /\ ~summarize_code
    /\ ReplacePre(Placeholder(CodeLanguage(soup[NextPre(soup)])), "placeholder")
    /\ UNCHANGED summarize_log
    /\ UNCHANGED sumVars

\* _describe_code_block, lines 201-208: summarize is a cache hit
DescribeByCacheHit ==
    /\ ppc = "blocks" /\ HasPre(soup)
    /\ summarize_code /\ LLMInUse
    /\ SummarizeHit(CodeText(soup[NextPre(soup)]), CodeLanguage(soup[NextPre(soup)]),
                    force_resummarize)
    /\ ReplacePre(last'.result, "summarizer")
    /\ LogSummarize

\* _describe_code_block, lines 201-208: summarize asks the language model
DescribeByModel(raw, w) ==
    /\ ppc = "blocks" /\ HasPre(soup)
    /\ summarize_code /\ LLMInUse
    /\ SummarizeLLM(CodeText(soup[NextPre(soup)]), CodeLanguage(soup[NextPre(soup)]),
                    force_resummarize, raw, w)
    /\ ReplacePre(last'.result, "summarizer")
    /\ LogSummarize

\* _describe_code_block, lines 201-208: summarize returns its own fallback
DescribeBySummarizerFallback(why, w) ==
    /\ ppc = "blocks" /\ HasPre(soup)
    /\ summarize_code /\ LLMInUse
    /\ SummarizeFallback(CodeText(soup[NextPre(soup)]), CodeLanguage(soup[NextPre(soup)]),
                         force_resummarize, why, w)
    /\ ReplacePre(last'.result, "summarizer")
    /\ LogSummarize

\* _describe_code_block, lines 209-215: the summarize call of the object
\* handed to the constructor raises, the exception is caught and the
\* rule-based summary is returned
DescribeSummarizeRaises ==
    /\ ppc = "blocks" /\ HasPre(soup)
    /\ summarize_code /\ LLMInUse
    /\ ReplacePre(RuleBasedSummary(CodeText(soup[NextPre(soup)]),
                                   CodeLanguage(soup[NextPre(soup)])),
                  "rule_based_after_raise")
    /\ LogSummarize
    /\ UNCHANGED sumVars

\* _describe_code_block, lines 201 and 215: no language model is in use
DescribeRuleBased ==
    /\ ppc = "blocks" /\ HasPre(soup)
    /\ summarize_code /\ ~LLMInUse
    /\ ReplacePre(RuleBasedSummary(CodeText(soup[NextPre(soup)]),
                                   CodeLanguage(soup[NextPre(soup)])),
                  "rule_based")
    /\ UNCHANGED summarize_log
    /\ UNCHANGED sumVars

\* the rest of process(html_content, day, title, date) once every pre is
\* replaced: inline code is unwrapped (lines 168-171), the text extracted
\* (line 100) and cleaned (line 103), the intro and the outro added (lines
\* 106-111) and the ProcessedArticle returned (lines 113-120)
FinishProcess(day, title, date) ==
    /\ ppc = "blocks" /\ ~HasPre(soup)
    /\ soup' = UnwrapInlineCode(soup)
    /\ \E cleaned \in {CleanForAudio(ExtractText(UnwrapInlineCode(soup)))} :
       \E full_text \in {FullText(day, title, cleaned)} :
          /\ body' = <<cleaned>>
          /\ article' = <<ProcessedArticle(day, title, date, full_text)>>
    /\ ppc' = "done"
    /\ UNCHANGED <<summarize_code, use_llm, llm_summarizer, force_resummarize, described,
                   summarize_log>>
    /\ UNCHANGED sumVars

ProcessorNext ==
    \/ DescribeDisabled /\ UNCHANGED <<audioVars, mainVars, textVars, crawlVars>>
    \/ DescribeByCacheHit /\ UNCHANGED <<audioVars, mainVars, textVars, crawlVars>>
    \/ \E raw \in Responses :
         DescribeByModel(raw, "ok") /\ UNCHANGED <<audioVars, mainVars, textVars, crawlVars>>
    \/ DescribeBySummarizerFallback("api_error", "ok") /\ UNCHANGED <<audioVars, mainVars, textVars, crawlVars>>
    \/ DescribeSummarizeRaises /\ UNCHANGED <<audioVars, mainVars, textVars, crawlVars>>
    \/ DescribeRuleBased /\ UNCHANGED <<audioVars, mainVars, textVars, crawlVars>>
    \/ \E day \in DayInputs, title \in Titles, date \in Dates :
         FinishProcess(day, title, date) /\ UNCHANGED <<audioVars, mainVars, textVars, crawlVars>>

ProcessorSpec == ProcessorInit /\ [][ProcessorNext]_vars

(***************************************************************************)
(* Part 5: main.py: the loops of scrape_and_process, generate_audio and    *)
(*         generate_from_cache over a list of articles     -- MainSpec     *)
(***************************************************************************)

\* Bound: number of articles (or day numbers) in the list a loop walks
MaxArticles == 3

\* the day numbers the articles carry
Days == 1..MaxArticles

\* the lists explored: every sequence of up to MaxArticles day numbers
ArticleLists == UNION { [1..n -> Days] : n \in 0..MaxArticles }

\* what generate_episode returns; it catches every Exception itself
EpisodeResults == {"True", "False"}

\* the exceptions load_text can raise: the file of the day is missing, or
\* it cannot be read or decoded
LoadTextErrors == {"FileNotFoundError", "Exception"}

\* one of the three functions is entered with its list
MainInit ==
    /\ SummarizerIdle
    /\ AudioIdle
    /\ ProcessorIdle
    /\ TextIdle
    /\ CrawlIdle
    /\ fn \in {"scrape_and_process", "generate_audio", "generate_from_cache"}
    /\ articles \in ArticleLists
    /\ next_article = 1
    /\ attempted = << >>
    /\ escaped = "none"

\* the loop of fn is at an element of its list
InLoop(f) == fn = f /\ escaped = "none" /\ next_article <= Len(articles)

\* the element at hand is recorded with what happened to it
Attempt(outcome) ==
    attempted' = Append(attempted, [article |-> articles[next_article],
                                    outcome |-> outcome])

\* the loop goes on to the next element
Continue ==
    /\ next_article' = next_article + 1
    /\ UNCHANGED <<fn, articles, escaped>>

\* an exception nothing in the function catches: the loop is left and the
\* exception reaches the caller
Escape(exception) ==
    /\ escaped' = exception
    /\ UNCHANGED <<fn, articles, next_article>>

\* scrape_and_process, lines 128-145: the article is processed and saved
ProcessAndSave ==
    /\ InLoop("scrape_and_process")
    /\ Attempt("saved")
    /\ Continue

\* scrape_and_process, lines 131-136: processor.process raises; neither
\* process nor the loop has a try around the call
ProcessRaises ==
    /\ InLoop("scrape_and_process")
    /\ Attempt("process raised")
    /\ Escape("Exception")

\* scrape_and_process, line 139: save_text raises (the directory or the
\* file cannot be written); the loop has no try around the call
SaveTextRaises ==
    /\ InLoop("scrape_and_process")
    /\ Attempt("save_text raised")
    /\ Escape("OSError")

\* generate_audio, lines 169-178: generate_episode returns result
GenerateAudioStep(result) ==
    /\ InLoop("generate_audio")
    /\ Attempt(result)
    /\ Continue

\* generate_from_cache, lines 208-216: the text is loaded and
\* generate_episode returns result
FromCacheStep(result) ==
    /\ InLoop("generate_from_cache")
    /\ Attempt(result)
    /\ Continue

\* generate_from_cache, lines 209 and 217-220: load_text raises and the
\* exception is caught by the try of the iteration
FromCacheLoadFails(exception) ==
    /\ InLoop("generate_from_cache")
    /\ Attempt(exception)
    /\ Continue

MainNext ==
    \/ ProcessAndSave /\ UNCHANGED <<sumVars, audioVars, procVars, textVars, crawlVars>>
    \/ ProcessRaises /\ UNCHANGED <<sumVars, audioVars, procVars, textVars, crawlVars>>
    \/ SaveTextRaises /\ UNCHANGED <<sumVars, audioVars, procVars, textVars, crawlVars>>
    \/ \E result \in EpisodeResults :
         GenerateAudioStep(result) /\ UNCHANGED <<sumVars, audioVars, procVars, textVars, crawlVars>>
    \/ \E result \in EpisodeResults :
         FromCacheStep(result) /\ UNCHANGED <<sumVars, audioVars, procVars, textVars, crawlVars>>
    \/ \E exception \in LoadTextErrors :
         FromCacheLoadFails(exception) /\ UNCHANGED <<sumVars, audioVars, procVars, textVars, crawlVars>>

MainSpec == MainInit /\ [][MainNext]_vars

(***************************************************************************)
(* Part 6: main.py: save_text and load_text on the text file of one        *)
(*         article                                         -- TextSpec     *)
(***************************************************************************)

\* save_text, line 56: the width of the separator line
SEPARATOR_WIDTH == 50

\* "=" * 50
SeparatorLine == [i \in 1..SEPARATOR_WIDTH |-> "="]

\* save_text, lines 51-57: what is written to the file
SaveTextContent(pa) ==
    <<"T", "i", "t", "l", "e", ":", " ">> \o pa.title \o <<"\n">>
    \o <<"D", "a", "y", ":", " ">> \o DecStr(pa.day) \o <<"\n">>
    \o <<"D", "a", "t", "e", ":", " ">> \o pa.date \o <<"\n">>
    \o <<"C", "h", "a", "r", "a", "c", "t", "e", "r", "s", ":", " ">> \o DecStr(pa.char_count) \o <<"\n">>
    \o <<"W", "o", "r", "d", "s", ":", " ">> \o DecStr(pa.word_count) \o <<"\n">>
    \o SeparatorLine \o <<"\n", "\n">>
    \o pa.text

\* f.read() of a file opened in text mode (line 70): "\r\n" and "\r" are
\* read as "\n"
UniversalNewlines(s) ==
    LET Kept(i) == ~(s[i] = "\r" /\ i < Len(s) /\ s[i + 1] = "\n")
        keep == SelectSeq([i \in 1..Len(s) |-> i], Kept)
    IN  [k \in 1..Len(keep) |-> IF s[keep[k]] = "\r" THEN "\n" ELSE s[keep[k]]]

\* index of the first ": " of line, 0 when there is none
ColonAt(line) ==
    LET at == { i \in 1..(Len(line) - 1) : line[i] = ":" /\ line[i + 1] = " " }
    IN  IF at = {} THEN 0 ELSE CHOOSE i \in at : \A j \in at : i <= j

\* load_text, lines 74-86: the text and the metadata parsed from content
ParseText(content) ==
    LET lines == SplitLines(content)
        seps == { k \in 1..Len(lines) : StartsWith(lines[k], <<"=">>) }
        sep == IF seps = {} THEN 0 ELSE CHOOSE k \in seps : \A j \in seps : k <= j
        last_header == IF sep = 0 THEN Len(lines) ELSE sep - 1
        pairs == { k \in 1..last_header : ColonAt(lines[k]) > 0 }
        KeyOf(k) == Lower(SubSeq(lines[k], 1, ColonAt(lines[k]) - 1))
        ValueOf(k) == SubSeq(lines[k], ColonAt(lines[k]) + 2, Len(lines[k]))
        LastWith(key) == CHOOSE k \in pairs :
                            /\ KeyOf(k) = key
                            /\ \A j \in pairs : KeyOf(j) = key => j <= k
        text_start == IF sep = 0 THEN 1 ELSE sep + 2
    IN  [raised |-> "none",
         text |-> JoinWith(SubSeq(lines, text_start, Len(lines)), <<"\n">>),
         metadata |-> [key \in { KeyOf(k) : k \in pairs } |-> ValueOf(LastWith(key))]]

\* the titles of the articles explored: plain, with a ": ", and two that
\* span two lines (get_text of an h1 keeps the line breaks inside it)
TextTitles == { <<"T">>,
                <<"a", ":", " ", "b">>,
                <<"a", "\n", "b">>,
                <<"a", "\n", "=", "b">> }

\* the dates explored: none found on the page, and one
TextDates == { << >>, <<"J", "a", "n", " ", "5", ",", " ", "2", "0", "2", "6">> }

\* the cleaned texts explored: one line; two lines, the second starting
\* with "="; a line with a carriage return inside
CleanedTexts == { <<"x">>,
                  <<"x", "\n", "\n", "=", "y">>,
                  <<"a", "\r", "b">> }

\* the days explored
TextDays == {1, FINAL_DAY}

\* the articles process returns for these
ProcessedArticles ==
    { ProcessedArticle(day, title, date, FullText(day, title, cleaned)) :
        day \in TextDays, title \in TextTitles, date \in TextDates, cleaned \in CleanedTexts }

TextInit ==
    /\ SummarizerIdle
    /\ AudioIdle
    /\ ProcessorIdle
    /\ MainIdle
    /\ CrawlIdle
    /\ processed \in { <<pa>> : pa \in ProcessedArticles }
    /\ text_file = << >>
    /\ loaded = << >>

\* save_text(processed_article)
SaveText ==
    /\ text_file = << >>
    /\ text_file' = <<SaveTextContent(processed[1])>>
    /\ UNCHANGED <<processed, loaded>>

\* load_text(day), lines 67-68: there is no file for the day
LoadTextMissing ==
    /\ text_file = << >>
    /\ loaded = << >>
    /\ loaded' = <<[raised |-> "FileNotFoundError", text |-> << >>, metadata |-> << >>]>>
    /\ UNCHANGED <<processed, text_file>>

\* load_text(day), lines 70-87: the file is read and parsed
LoadText ==
    /\ text_file # << >>
    /\ loaded = << >>
    /\ loaded' = <<ParseText(UniversalNewlines(text_file[1]))>>
    /\ UNCHANGED <<processed, text_file>>

TextNext ==
    \/ SaveText /\ UNCHANGED <<sumVars, audioVars, procVars, mainVars, crawlVars>>
    \/ LoadTextMissing /\ UNCHANGED <<sumVars, audioVars, procVars, mainVars, crawlVars>>
    \/ LoadText /\ UNCHANGED <<sumVars, audioVars, procVars, mainVars, crawlVars>>

TextSpec == TextInit /\ [][TextNext]_vars

(***************************************************************************)
(* Part 7: VibeCodingScraper (src/scraper.py): discover_article_urls       *)
(*                                                        -- CrawlSpec     *)
(***************************************************************************)

\* VibeCodingScraper.BASE_URL
BASE_URL ==
      <<"h", "t", "t", "p", "s", ":", "/", "/", "3", "1", "d", "a", "y", "s",
        "o", "f", "v", "i", "b", "e", "c", "o", "d", "i", "n", "g", ".", "c",
        "o", "m">>

\* the substring looked for in an href (lines 85 and 111)
ARTICLE_PATH == <<"/", "2", "0", "2", "6", "/", "0", "1", "/">>

\* line 120: the number of days at which the crawl loop is left
TARGET_DAYS == 31

\* _extract_day_from_url returns None
NoDay == -1

\* the value of a decimal digit character
DigitValue(c) == CHOOSE d \in 0..9 : Digit(d) = c

\* the pattern /2026/01/(\d{2})/ matches url at offset i
DayPatternAt(url, i) ==
    /\ i + Len(ARTICLE_PATH) + 3 <= Len(url)
    /\ SubSeq(url, i + 1, i + Len(ARTICLE_PATH)) = ARTICLE_PATH
    /\ url[i + Len(ARTICLE_PATH) + 1] \in Digits
    /\ url[i + Len(ARTICLE_PATH) + 2] \in Digits
    /\ url[i + Len(ARTICLE_PATH) + 3] = "/"

\* _extract_day_from_url: re.search finds the leftmost match, int() reads
\* the two digits
ExtractDay(url) ==
    LET offsets == { i \in 0..Len(url) : DayPatternAt(url, i) } IN
    IF offsets = {} THEN NoDay
    ELSE LET i == CHOOSE m \in offsets : \A n \in offsets : m <= n
             at == i + Len(ARTICLE_PATH)
         IN 10 * DigitValue(url[at + 1]) + DigitValue(url[at + 2])

\* "if day": None and 0 are both false
IsDay(day) == day # NoDay /\ day # 0

\* urljoin(BASE_URL, href) for the hrefs of the model: an absolute URL is
\* kept, a path replaces the (empty) path of BASE_URL, a relative
\* reference is resolved against the root
UrlJoin(base, href) ==
    IF StartsWith(href, <<"h", "t", "t", "p", "s", ":", "/", "/">>)
    THEN href
    ELSE IF StartsWith(href, <<"/">>) THEN base \o href
    ELSE base \o <<"/">> \o href

\* discovered is a dict; it is kept as the sequence of its items in
\* insertion order
HasDay(disc, day) == \E i \in DOMAIN disc : disc[i].day = day

\* discovered[day] = full_url
DictSet(disc, day, url) ==
    IF HasDay(disc, day)
    THEN [i \in DOMAIN disc |-> IF disc[i].day = day
                                THEN [day |-> day, url |-> url] ELSE disc[i]]
    ELSE Append(disc, [day |-> day, url |-> url])

\* list(discovered.values())
DictValues(disc) == [i \in DOMAIN disc |-> disc[i].url]

\* lines 84-89: the body of the loop over the links of the home page
HomeLink(disc, href) ==
    LET full_url == UrlJoin(BASE_URL, href)
        day == ExtractDay(full_url)
    IN IF Contains(href, ARTICLE_PATH) /\ IsDay(day)
       THEN DictSet(disc, day, full_url) ELSE disc

RECURSIVE HomeLinks(_, _)
\* lines 83-89: the loop over the links of the home page
HomeLinks(links, disc) ==
    IF links = << >> THEN disc ELSE HomeLinks(Tail(links), HomeLink(disc, Head(links)))

\* line 114: day not in discovered
EnqueuesDay(st, day) == ~HasDay(st.discovered, day)

\* lines 107-117: the body of the loop over the links of an article page
PageLink(st, href) ==
    LET full_url == UrlJoin(BASE_URL, href)
        day == ExtractDay(full_url)
    IN IF Contains(href, ARTICLE_PATH) /\ IsDay(day) /\ EnqueuesDay(st, day)
       THEN [discovered |-> DictSet(st.discovered, day, full_url),
             urls_to_check |-> Append(st.urls_to_check, full_url)]
       ELSE st

RECURSIVE PageLinks(_, _)
\* lines 106-117: the loop over the links of an article page
PageLinks(links, st) ==
    IF links = << >> THEN st ELSE PageLinks(Tail(links), PageLink(st, Head(links)))

\* the sequence without its element at i
RemoveAt(s, i) == SubSeq(s, 1, i - 1) \o SubSeq(s, i + 1, Len(s))

RECURSIVE SortedUrls(_)
\* lines 124-125: [discovered[day] for day in sorted(discovered.keys())]
SortedUrls(disc) ==
    IF disc = << >> THEN << >>
    ELSE LET m == CHOOSE i \in DOMAIN disc : \A j \in DOMAIN disc : disc[i].day <= disc[j].day
         IN <<disc[m].url>> \o SortedUrls(RemoveAt(disc, m))

\* f"{d:02d}" as the site writes the day in its URLs
TwoDigits(d) == <<Digit(d \div 10), Digit(d % 10)>>

\* the path of the article of day d with the given slug: /2026/01/DD/slug/
ArticlePath(d, slug) == ARTICLE_PATH \o TwoDigits(d) \o <<"/">> \o slug \o <<"/">>

\* its absolute URL
ArticleUrl(d, slug) == BASE_URL \o ArticlePath(d, slug)

\* the links of an article page of a site of n days: previous and next day
PrevNext(d, n) ==
    (IF d > 1 THEN <<ArticlePath(d - 1, <<"a">>)>> ELSE << >>)
        \o (IF d < n THEN <<ArticlePath(d + 1, <<"a">>)>> ELSE << >>)

\* a site whose home page lists all the days of the series, each article
\* linking its neighbours
ListingWeb ==
    [u \in {BASE_URL} \cup { ArticleUrl(d, <<"a">>) : d \in 1..TARGET_DAYS } |->
        IF u = BASE_URL THEN [d \in 1..TARGET_DAYS |-> ArticlePath(d, <<"a">>)]
        ELSE PrevNext(ExtractDay(u), TARGET_DAYS)]

\* a site whose home page lists all the days but the last, which is
\* reachable from the article before it
SeriesWeb ==
    [u \in {BASE_URL} \cup { ArticleUrl(d, <<"a">>) : d \in 1..TARGET_DAYS } |->
        IF u = BASE_URL THEN [d \in 1..(TARGET_DAYS - 1) |-> ArticlePath(d, <<"a">>)]
        ELSE PrevNext(ExtractDay(u), TARGET_DAYS)]

\* a small site with a cycle: the home page links day 1 by an absolute URL,
\* a page that is no article, a day 00, a one-digit day, a relative
\* reference, and two URLs of day 2; the articles link each other, a second
\* URL of day 1 and a day 4 whose page does not exist
CycleWeb ==
    [u \in {BASE_URL, ArticleUrl(1, <<"a">>), ArticleUrl(2, <<"b">>), ArticleUrl(3, <<"a">>)} |->
        IF u = BASE_URL
        THEN <<ArticleUrl(1, <<"a">>),
               <<"/", "a", "b", "o", "u", "t", "/">>,
               ArticlePath(0, <<"x">>),
               ARTICLE_PATH \o <<"5", "/", "x", "/">>,
               Tail(ArticlePath(3, <<"c">>)),
               ArticlePath(2, <<"a">>),
               ArticlePath(2, <<"b">>)>>
        ELSE IF u = ArticleUrl(1, <<"a">>)
        THEN <<ArticlePath(2, <<"a">>), <<"/">>>>
        ELSE IF u = ArticleUrl(2, <<"b">>)
        THEN <<ArticlePath(1, <<"a">>), ArticlePath(3, <<"a">>), ArticlePath(1, <<"b">>)>>
        ELSE <<ArticlePath(2, <<"b">>), ArticlePath(4, <<"a">>)>>]

\* the sites crawled: for each page that exists, the hrefs of its links in
\* document order
Webs == {ListingWeb, SeriesWeb, CycleWeb}

\* discover_article_urls is entered
CrawlInit ==
    /\ SummarizerIdle
    /\ AudioIdle
    /\ ProcessorIdle
    /\ MainIdle
    /\ TextIdle
    /\ web \in Webs
    /\ discovered = << >>
    /\ urls_to_check = << >>
    /\ checked = {}
    /\ fetch_log = << >>
    /\ cpc = "start"
    /\ returned = << >>

\* fetch_page(url) can return a page: the page exists (otherwise
\* raise_for_status raises and None is returned)
CanFetch(url) == url \in DOMAIN web

\* lines 77-93: the home page is fetched (ok) or not, its article links
\* are entered in discovered, and the queue is made of their URLs
DiscoverHome(ok) ==
    /\ cpc = "start"
    /\ ok => CanFetch(BASE_URL)
    /\ fetch_log' = Append(fetch_log, BASE_URL)
    /\ discovered' = IF ok THEN HomeLinks(web[BASE_URL], << >>) ELSE << >>
    /\ urls_to_check' = DictValues(discovered')
    /\ checked' = {}
    /\ cpc' = "loop"
    /\ UNCHANGED <<web, returned>>

\* lines 95-121: one iteration of the while loop; ok tells whether
\* fetch_page returns a page
CheckNextUrl(ok) ==
    /\ cpc = "loop"
    /\ urls_to_check # << >>
    /\ LET url == Head(urls_to_check)
           rest == Tail(urls_to_check)
       IN IF url \in checked
          THEN /\ urls_to_check' = rest
               /\ UNCHANGED <<discovered, checked, fetch_log, cpc>>
          ELSE /\ ok => CanFetch(url)
               /\ checked' = checked \cup {url}
               /\ fetch_log' = Append(fetch_log, url)
               /\ IF ok
                  THEN \E st \in {PageLinks(web[url], [discovered |-> discovered,
                                                       urls_to_check |-> rest])} :
                          /\ discovered' = st.discovered
                          /\ urls_to_check' = st.urls_to_check
                          /\ cpc' = IF Len(st.discovered) >= TARGET_DAYS
                                    THEN "break" ELSE "loop"
                  ELSE /\ urls_to_check' = rest
                       /\ UNCHANGED <<discovered, cpc>>
    /\ UNCHANGED <<web, returned>>

\* lines 123-125: the loop is over (the queue is empty or break was
\* executed) and the URLs are returned in the order of their days
ReturnUrls ==
    /\ \/ cpc = "loop" /\ urls_to_check = << >>
       \/ cpc = "break"
    /\ returned' = SortedUrls(discovered)
    /\ cpc' = "done"
    /\ UNCHANGED <<web, discovered, urls_to_check, checked, fetch_log>>

CrawlNext ==
    \/ \E ok \in BOOLEAN :
         DiscoverHome(ok) /\ UNCHANGED <<sumVars, audioVars, procVars, mainVars, textVars>>
    \/ \E ok \in BOOLEAN :
         CheckNextUrl(ok) /\ UNCHANGED <<sumVars, audioVars, procVars, mainVars, textVars>>
    \/ ReturnUrls /\ UNCHANGED <<sumVars, audioVars, procVars, mainVars, textVars>>

CrawlSpec == CrawlInit /\ [][CrawlNext]_vars

(***************************************************************************)
(* Claims about CodeSummarizer, checked under Spec                         *)
(***************************************************************************)

\* the call before the last one was made with the same (code, language)
RepeatedCall ==
    /\ last.path # "none"
    /\ last.prev # << >>
    /\ last.prev[1].code = last.code
    /\ last.prev[1].language = last.language

\* C1: with caching enabled, a summarize call with force_refresh = false
\* that repeats the (code, language) of the call before it returns the
\* string that call returned, adds one to cache_hits, leaves api_calls
\* unchanged and does not enter _call_llm, whether the first call was a
\* cache hit, a model answer or a fallback.
C1_RepeatIsCacheHit ==
    (cache_enabled /\ RepeatedCall /\ ~last.force) =>
        /\ last.result = last.prev[1].result
        /\ last.path = "hit"
        /\ stats.cache_hits = last.stats0.cache_hits + 1
        /\ stats.api_calls = last.stats0.api_calls
        /\ llm_calls = last.llm0

\* C1 witness: a repeated call without force_refresh has returned after a
\* first call that was answered by the model
C1_Witness ==
    /\ cache_enabled /\ RepeatedCall /\ ~last.force
    /\ last.prev[1].path = "llm"
    /\ last.path = "hit"

\* C2: when the language-model call fails, summarize returns a non-empty
\* fallback text and (caching enabled) stores it under the snippet's key;
\* a following call with the same input and no forced refresh is a cache
\* hit that returns that same fallback text without entering _call_llm.
C2_FallbackCached ==
    /\ last.path = "fallback" =>
          /\ Len(last.result) > 0
          /\ cache_enabled =>
                /\ last.key \in DOMAIN cache
                /\ cache[last.key] = last.result
    /\ (cache_enabled /\ RepeatedCall /\ ~last.force
            /\ last.prev[1].path = "fallback") =>
          /\ last.path = "hit"
          /\ last.result = last.prev[1].result
          /\ last.result = FallbackSummary(last.code, last.language)
          /\ Len(last.result) > 0
          /\ llm_calls = last.llm0
          /\ stats.errors = last.stats0.errors

\* C2 witness: every model call so far failed, the first call fell back
\* and the repeated call has returned
C2_Witness ==
    /\ cache_enabled /\ RepeatedCall /\ ~last.force
    /\ last.prev[1].path = "fallback"
    /\ stats.api_calls = 0
    /\ last.path = "hit"

\* C3: every summarize call returns a non-empty string (the model raises
\* nothing to the caller, so returning is all a call can do).
C3_AlwaysNonEmpty == last.path # "none" => Len(last.result) > 0

\* C4: two consecutive summarize calls with distinct (language, code)
\* pairs compute distinct cache keys, and calls with identical pairs the
\* same key.
C4_KeysDistinct ==
    (last.path # "none" /\ last.prev # << >>) =>
        ((last.key = last.prev[1].key) <=>
            (last.code = last.prev[1].code /\ last.language = last.prev[1].language))

\* C11: with the language-model call unavailable, summarize of the two-line
\* snippet git add -A / git commit -m "wip" tagged bash returns a sentence
\* that mentions 'commit'.
C11_FallbackMentionsCommit ==
    (last.path = "fallback" /\ last.code = GitCommitCode
        /\ last.language = <<"b", "a", "s", "h">>) =>
        Contains(last.result, <<"c", "o", "m", "m", "i", "t">>)

\* C13: constructing a CodeSummarizer with caching enabled never fails
\* because of the cache file: whatever the file holds, the constructor
\* returns (and the summarizer then starts from an empty or loaded cache).
C13_ConstructorNeverFails == cache_enabled => init_raised = "none"

\* C14: with caching disabled no step of the summarizer (summarize,
\* clear_cache) changes the cache file, the in-memory cache stays empty and
\* no summarize call is a cache hit.
C14_DisabledNoDiskEffect ==
    [][~cache_enabled =>
          /\ file' = file
          /\ cache' = EmptyCache
          /\ last'.path # "hit"]_vars

\* C18: a summarize call never removes a cache entry, and changes the value
\* of an entry that was already present only when it is made with
\* force_refresh = true, and then only the entry under the call's own key.
C18_EntriesStable ==
    [][ncalls' = ncalls + 1 =>
          \A k \in DOMAIN cache :
              /\ k \in DOMAIN cache'
              /\ cache'[k] # cache[k] => (last'.force /\ k = last'.key)]_vars

\* C18 witness: a call with force_refresh = true has replaced the value the
\* call before it stored under the same key
C18_Witness ==
    /\ cache_enabled /\ RepeatedCall /\ last.force
    /\ last.result # last.prev[1].result
    /\ cache[last.key] = last.result

\* C19: with caching enabled, once a summarize call that stored an entry
\* has returned and its write of the cache file succeeded, the file holds
\* exactly the in-memory mapping, so loading it gives back every entry.
C19_FileMirrorsCache ==
    (cache_enabled /\ last.path \in {"llm", "fallback"} /\ last.write = "ok") =>
        /\ file = [kind |-> "json", data |-> cache]
        /\ LoadCache(file) = cache

\* C19 witness: the second of two storing calls has returned, its write
\* succeeded and the mapping holds two entries
C19_Witness ==
    /\ cache_enabled /\ last.path = "llm" /\ last.write = "ok"
    /\ last.prev # << >>
    /\ Cardinality(DOMAIN cache) >= 2

\* C20: whatever made the language-model call fail, summarize adds one to
\* errors, leaves api_calls and cache_hits as they were and returns the
\* fallback summary of its arguments.
C20_FailuresFallBack ==
    (last.path = "fallback") =>
        /\ last.why \in Failures
        /\ stats.errors = last.stats0.errors + 1
        /\ stats.api_calls = last.stats0.api_calls
        /\ stats.cache_hits = last.stats0.cache_hits
        /\ last.result = FallbackSummary(last.code, last.language)

\* C20 witness: after a call the model answered, a call failed on a
\* malformed answer
C20_Witness ==
    /\ last.path = "fallback" /\ last.why = "malformed_payload"
    /\ last.stats0.api_calls >= 1

(***************************************************************************)
(* Claims about _chunk_text, checked under ChunkSpec                       *)
(***************************************************************************)

NotSpace(c) == ~IsSpace(c)

RECURSIVE WordsAcc(_, _)
\* the words of s after the word being collected in cur
WordsAcc(s, cur) ==
    IF s = << >> THEN (IF cur = << >> THEN << >> ELSE <<cur>>)
    ELSE IF IsSpace(Head(s))
         THEN (IF cur = << >> THEN << >> ELSE <<cur>>) \o WordsAcc(Tail(s), << >>)
         ELSE WordsAcc(Tail(s), Append(cur, Head(s)))

\* the maximal runs of non-whitespace characters of s, in order
Words(s) == WordsAcc(s, << >>)

RECURSIVE AllWords(_)
\* the words of a list of chunks, chunk after chunk
AllWords(cs) == IF cs = << >> THEN << >> ELSE Words(Head(cs)) \o AllWords(Tail(cs))

\* C5: every chunk _chunk_text returns is at most max_chars long.
C5_ChunksWithinLimit ==
    pc = "returned" => \A i \in 1..Len(chunks) : Len(chunks[i]) <= max_chars

\* C6: the chunks, read in order, hold exactly the words of the text, in
\* the text's order: chunking changes whitespace only, and drops,
\* duplicates, reorders, merges or cuts no word.
C6_ChunksCoverText == pc = "returned" => AllWords(chunks) = Words(text)

\* C6 witness: a text that was cut into three chunks or more
C6_Witness == pc = "returned" /\ Len(chunks) >= 3 /\ Words(text) # << >>

\* the text is empty or made only of "\n\n" paragraph separators
OnlyParagraphBreaks(t) ==
    /\ Len(t) % 2 = 0
    /\ \A i \in 1..Len(t) : t[i] = "\n"

\* C7 as stated: a text no longer than max_chars gives exactly one chunk,
\* the trimmed text, empty text included.
C7_SmallTextOneChunk ==
    (pc = "returned" /\ Len(text) <= max_chars) => chunks = <<Strip(text)>>

\* C7 amended: a text no longer than max_chars gives exactly one chunk, the
\* trimmed text, unless it is empty or made only of blank-line paragraph
\* separators, and then it gives no chunk.
C7_SmallTextAtMostOneChunk ==
    (pc = "returned" /\ Len(text) <= max_chars) =>
        IF OnlyParagraphBreaks(text) THEN chunks = << >>
        ELSE chunks = <<Strip(text)>>

\* C7 witness: a text of several paragraphs with whitespace to trim that
\* fits the limit came back as one chunk
C7_Witness ==
    /\ pc = "returned" /\ Len(text) <= max_chars
    /\ Len(SplitParagraphs(text)) >= 2
    /\ Strip(text) # text /\ Strip(text) # << >>
    /\ chunks = <<Strip(text)>>

\* indices of the non-whitespace characters of t, ascending
NonSpaceAt(t) ==
    LET Keep(i) == ~IsSpace(t[i]) IN SelectSeq([i \in 1..Len(t) |-> i], Keep)

RECURSIVE NonSpaceUpTo(_, _)
\* number of non-whitespace characters in the first k chunks
NonSpaceUpTo(cs, k) ==
    IF k = 0 THEN 0 ELSE NonSpaceUpTo(cs, k - 1) + Len(SelectSeq(cs[k], NotSpace))

RECURSIVE ParaLenAt(_, _, _)
\* length of the blank-line delimited paragraph of a text that holds index
\* a, given the text's paragraphs and the index the first of them starts at
ParaLenAt(paras, start, a) ==
    IF paras = << >> THEN 0
    ELSE IF a < start + Len(Head(paras)) THEN Len(Head(paras))
         ELSE ParaLenAt(Tail(paras), start + Len(Head(paras)) + 2, a)

\* where in the text the boundary between chunk k and chunk k+1 falls: a is
\* the index of the last non-whitespace character before it (0: none), b of
\* the first one after it (Len + 1: none); the boundary is the gap between
BoundaryGap(t, cs, k) ==
    LET at == NonSpaceAt(t)
        p == NonSpaceUpTo(cs, k)
    IN  [a |-> IF p = 0 THEN 0 ELSE at[p],
         b |-> IF p >= Len(at) THEN Len(t) + 1 ELSE at[p + 1]]

\* the gap holds a blank line
AtParagraphBreak(t, g) ==
    \E i \in (g.a + 1)..(g.b - 2) : t[i] = "\n" /\ t[i + 1] = "\n"

\* the gap is whitespace that follows a sentence-ending mark, inside a
\* paragraph longer than max
AtSentenceEnd(t, g, max) ==
    /\ g.a >= 1
    /\ t[g.a] \in {".", "!", "?"}
    /\ g.b > g.a + 1
    /\ ParaLenAt(SplitParagraphs(t), 1, g.a) > max

\* C9: the boundary between two consecutive chunks always lies in
\* whitespace of the text (never inside a word), and that whitespace either
\* holds a blank-line paragraph break or follows a sentence-ending . ! ? of
\* a paragraph longer than max_chars.
C9_BoundariesAtBreaks ==
    pc = "returned" =>
        \A k \in 1..(Len(chunks) - 1) :
            LET g == BoundaryGap(text, chunks, k) IN
            /\ NonSpaceUpTo(chunks, k) <= Len(NonSpaceAt(text))
            /\ g.b > g.a + 1
            /\ AtParagraphBreak(text, g) \/ AtSentenceEnd(text, g, max_chars)

\* C9 witness: a single oversized paragraph was cut at a sentence end
C9_Witness ==
    /\ pc = "returned"
    /\ Len(SplitParagraphs(text)) = 1
    /\ Len(chunks) >= 2
    /\ AtSentenceEnd(text, BoundaryGap(text, chunks, 1), max_chars)

(***************************************************************************)
(* Claims about generate_episode, checked under AudioSpec                  *)
(***************************************************************************)

\* C8: for empty text generate_episode is a no-op: the chunk list is empty,
\* the synthesis function is not invoked and no audio is written.
C8_EmptyTextIsNoOp ==
    text = << >> =>
        /\ ChunkText(text, max_chars) = << >>
        /\ synth_log = << >>
        /\ out_file = << >>

\* the audio of each of the first n chunks, in chunk order
AudioOfChunks(n) == [i \in 1..n |-> GenerateAudio(chunks[i])]

\* C10: in the chunked path the texts given to the synthesis function are
\* the chunks in chunk order, one call per chunk; the segments collected,
\* and the list handed to _concatenate_and_save, are the audio of those
\* chunks in the same order, and the file written is their concatenation.
C10_SynthesisInChunkOrder ==
    (pc \in {"loop", "done"} /\ Len(text) > max_chars) =>
        /\ Len(synth_log) <= Len(chunks)
        /\ synth_log = SubSeq(chunks, 1, Len(synth_log))
        /\ audio_chunks = AudioOfChunks(Len(audio_chunks))
        /\ stitched # << >> =>
              /\ synth_log = chunks
              /\ stitched = <<AudioOfChunks(Len(chunks))>>
        /\ ret = "True" => out_file = <<JoinAudio(AudioOfChunks(Len(chunks)))>>

\* C10 witness: an episode of three or more chunks, not all alike, was
\* synthesized, joined and saved
C10_Witness ==
    /\ pc = "done" /\ ret = "True" /\ stitched # << >>
    /\ Len(chunks) >= 3
    /\ chunks[1] # chunks[2]

\* generate_episode has ended because a call of the synthesis function raised
FailedOnSynthesis ==
    gen_stats.errors # << >> /\ gen_stats.errors[1].error = "synthesis"

\* C16: when the synthesis call for a chunk fails, generate_episode is over
\* and has returned False; synthesis was invoked for the chunks up to the
\* failing one and for none after it, nothing was joined or written, and
\* the stats hold exactly one error and no episode.
C16_FailedChunkAbortsEpisode ==
    FailedOnSynthesis =>
        /\ pc = "done" /\ ret = "False"
        /\ Len(gen_stats.errors) = 1
        /\ gen_stats.episodes = << >>
        /\ gen_stats.total_episodes = 0 /\ gen_stats.total_characters = 0
        /\ out_file = << >> /\ stitched = << >>
        /\ Len(text) <= max_chars => synth_log = <<text>>
        /\ Len(text) > max_chars =>
              /\ idx < Len(chunks)
              /\ synth_log = SubSeq(chunks, 1, idx + 1)
              /\ audio_chunks = AudioOfChunks(idx)

\* C16 witness: the second of three or more chunks failed after the first
\* had been synthesized
C16_Witness ==
    /\ FailedOnSynthesis
    /\ Len(chunks) >= 3 /\ idx = 1
    /\ Len(synth_log) = 2 /\ Len(audio_chunks) = 1

(***************************************************************************)
(* Claims about ContentProcessor, checked under ProcessorSpec              *)
(***************************************************************************)

\* the placeholder that names Python, brackets included
PythonPlaceholder ==
    <<"[", "P", "y", "t", "h", "o", "n", " ", "c", "o", "d", "e", " ", "e",
      "x", "a", "m", "p", "l", "e", " ", "-", " ", "s", "e", "e", " ", "t",
      "h", "e", " ", "a", "r", "t", "i", "c", "l", "e", " ", "f", "o", "r",
      " ", "d", "e", "t", "a", "i", "l", "s", "]">>

\* the summarizer handed to the processor is as it was constructed
SummarizerUntouched ==
    /\ summarize_log = << >>
    /\ stats = [cache_hits |-> 0, api_calls |-> 0, errors |-> 0]
    /\ cache = LoadCache(file)
    /\ file \in ProcessorFiles
    /\ llm_calls = 0 /\ ncalls = 0 /\ last = NoCall

\* a block tagged python has been described
PythonBlockDescribed ==
    \E k \in DOMAIN described : described[k].language = <<"p", "y", "t", "h", "o", "n">>

C15_SummarizerFailureNotFatal ==
    /\ \A k \in DOMAIN described :
          described[k].by \in {"rule_based_after_raise", "rule_based"} =>
              /\ described[k].text = RuleBasedSummary(described[k].code,
                                                      described[k].language)
              /\ Len(described[k].text) > 0
    /\ (summarize_code /\ ~LLMInUse) =>
          /\ \A k \in DOMAIN described : described[k].by = "rule_based"
          /\ summarize_log = << >>
    /\ ppc = "done" => (body # << >> /\ ~HasPre(soup))

\* C15 witness: summarize raised for the first block, process went on to
\* the second block and finished with both descriptions in the text
C15_Witness ==
    /\ ppc = "done" /\ LLMInUse
    /\ Len(described) >= 2
    /\ described[1].by = "rule_based_after_raise"
    /\ described[2].by = "summarizer"
    /\ Contains(body[1], described[1].text)

(***************************************************************************)
(* Claims about the loops of main.py, checked under MainSpec               *)
(***************************************************************************)

\* the function has returned or an exception has left it
LoopOver == escaped # "none" \/ next_article > Len(articles)

\* C17: whatever fails while one article is handled, each of the three
\* functions ends having attempted every article of its list exactly once,
\* in list order.
C17_EveryArticleAttempted ==
    LoopOver => [k \in 1..Len(attempted) |-> attempted[k].article] = articles

(***************************************************************************)
(* Claims about _rule_based_summary and _create_outro, checked under       *)
(* ProcessorSpec                                                           *)
(***************************************************************************)

\* the descriptions that _rule_based_summary produced
RuleBasedDescriptions ==
    { k \in DOMAIN described : described[k].by \in {"rule_based", "rule_based_after_raise"} }

\* C21: the rules of the rule-based summary are tried in the order
\* version-control commands, function definitions, class definitions,
\* comment blocks, import blocks, markdown templates, generic statement, and
\* the first that matches wins: so every block holding a git command is
\* described by the version-control sentence, a '##' heading in it or not.
C21_VersionControlRuleFirst ==
    \A k \in RuleBasedDescriptions :
        Contains(Lower(described[k].code), <<"g", "i", "t", " ">>)
        => described[k].text = GitSentence(Lower(described[k].code),
                                           LanguageName(described[k].language))

\* s ends with suffix
EndsWith(s, suffix) ==
    Len(s) >= Len(suffix) /\ SubSeq(s, Len(s) - Len(suffix) + 1, Len(s)) = suffix

\* C22: the text of an article closes with the statement naming the next
\* day for every day that is not the last of the series, and with the
\* completion statement for the last day and only for it.
C22_CompletionOnlyForFinalDay ==
    article # << >> =>
        LET a == article[1] IN
        /\ a.day # FINAL_DAY => EndsWith(a.text, NextDayOutro(a.day))
        /\ a.day = FINAL_DAY => EndsWith(a.text, CompletionOutro)
        /\ EndsWith(a.text, CompletionOutro) => a.day = FINAL_DAY

(***************************************************************************)
(* Further claims about _chunk_text, checked under ChunkSpec               *)
(***************************************************************************)

\* the chunks _chunk_text closed inside its loops, for the call made
ChunkCloses == PackText(text, max_chars).closes

\* C23: the chunker is greedy: whenever a chunk is closed inside the loops,
\* the running chunk plus the next unit plus its separator (2 characters
\* for a paragraph, 1 for a sentence) exceeds max_chars; every chunk
\* returned was closed that way, but for the last, closed at the end of the
\* text.
C23_ClosedOnlyOnOverflow ==
    pc = "returned" =>
        /\ \A k \in DOMAIN ChunkCloses :
              Len(ChunkCloses[k].cur) + Len(ChunkCloses[k].unit) + ChunkCloses[k].sep
                  > max_chars
        /\ \A k \in DOMAIN ChunkCloses : chunks[k] = Strip(ChunkCloses[k].cur)
        /\ Len(chunks) \in {Len(ChunkCloses), Len(ChunkCloses) + 1}

\* a call in which a chunk was closed before a paragraph and another
\* before a sentence
C23_Witness ==
    /\ pc = "returned"
    /\ \E j, k \in DOMAIN ChunkCloses : ChunkCloses[j].sep = 2 /\ ChunkCloses[k].sep = 1

(***************************************************************************)
(* Claims about save_text and load_text, checked under TextSpec            *)
(***************************************************************************)

\* the metadata load_text returned holds value under key
MetadataHolds(key, value) ==
    /\ key \in DOMAIN loaded[1].metadata
    /\ loaded[1].metadata[key] = value

\* C24: load_text applied to the file save_text wrote returns the text of
\* the article as body, and metadata holding the title, day, date,
\* character count and word count written, whatever the title, the date
\* and the body contain.
C24_SaveLoadRoundTrip ==
    (loaded # << >> /\ loaded[1].raised = "none") =>
        LET pa == processed[1] IN
        /\ loaded[1].text = pa.text
        /\ MetadataHolds(<<"t", "i", "t", "l", "e">>, pa.title)
        /\ MetadataHolds(<<"d", "a", "y">>, DecStr(pa.day))
        /\ MetadataHolds(<<"d", "a", "t", "e">>, pa.date)
        /\ MetadataHolds(<<"c", "h", "a", "r", "a", "c", "t", "e", "r", "s">>,
                         DecStr(pa.char_count))
        /\ MetadataHolds(<<"w", "o", "r", "d", "s">>, DecStr(pa.word_count))

(***************************************************************************)
(* Further claims about ContentProcessor, checked under ProcessorSpec      *)
(***************************************************************************)

\* the indices of the pre elements of a document
PreIndices(doc) == { i \in DOMAIN doc : doc[i].tag = "pre" }

\* the first pre element of a document, in document order
FirstPre(doc) == CHOOSE i \in PreIndices(doc) : \A j \in PreIndices(doc) : i <= j

\* C25: with the language model in use, every step of process that handles
\* a pre element calls the summarizer exactly once, with the code of the
\* first pre left in the document, and replaces that pre; once no pre is
\* left the summarizer is not called again, and every inline code span is
\* replaced by its literal text.
C25_SummarizerOncePerPre ==
    [][ (ppc = "blocks" /\ summarize_code /\ LLMInUse) =>
          IF PreIndices(soup) # {}
          THEN /\ Len(summarize_log') = Len(summarize_log) + 1
               /\ SubSeq(summarize_log', 1, Len(summarize_log)) = summarize_log
               /\ summarize_log'[Len(summarize_log')].code = soup[FirstPre(soup)].spans[1].text
               /\ PreIndices(soup') = PreIndices(soup) \ {FirstPre(soup)}
          ELSE /\ summarize_log' = summarize_log
               /\ DOMAIN soup' = DOMAIN soup
               /\ \A i \in DOMAIN soup : \A k \in DOMAIN soup[i].spans :
                     /\ ~soup'[i].spans[k].code
                     /\ soup'[i].spans[k].text = soup[i].spans[k].text ]_vars

\* an article with two different pre elements and an inline code span is
\* processed with the language model in use
C25_Witness ==
    /\ ppc = "done" /\ summarize_code /\ LLMInUse
    /\ Len(summarize_log) = 2
    /\ summarize_log[1].code # summarize_log[2].code
    /\ \E i \in DOMAIN soup : Len(soup[i].spans) = 2 /\ soup[i].spans[2].text = <<"c">>

(***************************************************************************)
(* Further claims about CodeSummarizer, checked under Spec                 *)
(***************************************************************************)

\* cache_hits + api_calls + errors
CounterSum(st) == st.cache_hits + st.api_calls + st.errors

\* C26: every summarize call that returns adds one to exactly one of
\* cache_hits, api_calls and errors, so the three add up to the number of
\* calls that have returned; get_stats reports these counters and, as
\* cache_size, the number of keys in the cache.
C26_OneCounterPerCall ==
    /\ last.path # "none" => CounterSum(stats) = CounterSum(last.stats0) + 1
    /\ CounterSum(stats) = ncalls
    /\ GetStats(stats, cache).cache_size = Cardinality(DOMAIN cache)
    /\ CounterSum(GetStats(stats, cache)) = CounterSum(stats)

\* C27: with caching enabled, once a summarize call with force_refresh
\* true whose language-model call failed has returned, the cache holds
\* the fallback text under the snippet's key, whatever was cached there
\* before, and when the write of the cache file succeeded the file holds
\* that fallback too.
C27_ForcedFailureOverwrites ==
    (cache_enabled /\ last.path = "fallback" /\ last.force) =>
        /\ last.key \in DOMAIN cache
        /\ cache[last.key] = FallbackSummary(last.code, last.language)
        /\ last.write = "ok" =>
              /\ file.kind = "json"
              /\ last.key \in DOMAIN file.data
              /\ file.data[last.key] = FallbackSummary(last.code, last.language)

\* C27 witness: the call before was answered by the model for the same
\* snippet, so its summary was cached; the forced call failed, and cache
\* and file now hold the fallback instead of that summary
C27_Witness ==
    /\ cache_enabled /\ RepeatedCall /\ last.force
    /\ last.prev[1].path = "llm"
    /\ last.path = "fallback" /\ last.write = "ok"
    /\ cache[last.key] # last.prev[1].result
    /\ file.kind = "json" /\ file.data[last.key] = last.result

(***************************************************************************)
(* Further claims about AudioGenerator, checked under AudioSpec            *)
(***************************************************************************)

\* C28: every chunk _chunk_text returns is non-empty after trimming,
\* whatever the text, so on the chunked path of generate_episode the
\* backend is never asked to synthesize an empty text.
C28_ChunksNonEmpty ==
    /\ \A i \in 1..Len(chunks) : Len(Strip(chunks[i])) > 0
    /\ Len(text) > max_chars =>
          \A i \in 1..Len(synth_log) : Len(Strip(synth_log[i])) > 0

(***************************************************************************)
(* Claims about GenerationStats, checked under EpisodesSpec                *)
(***************************************************************************)

RECURSIVE SumCharacters(_)
\* the sum of the character counts of the episode records
SumCharacters(eps) ==
    IF eps = << >> THEN 0 ELSE eps[1].characters + SumCharacters(Tail(eps))

\* total_episodes and total_characters agree with the episode records
StatsConsistent(st) ==
    /\ st.total_episodes = Len(st.episodes)
    /\ st.total_characters = SumCharacters(st.episodes)

\* the step on which a generate_episode call returns
EpisodeReturns == pc # "done" /\ pc' = "done"

\* the call has recorded one episode, of the length of its text, and no error
RecordedEpisode ==
    /\ gen_stats'.episodes = Append(gen_stats.episodes, [characters |-> Len(text)])
    /\ gen_stats'.errors = gen_stats.errors
    /\ gen_stats'.total_episodes = gen_stats.total_episodes + 1
    /\ gen_stats'.total_characters = gen_stats.total_characters + Len(text)

\* the call has recorded one error and no episode
RecordedError ==
    /\ Len(gen_stats'.errors) = Len(gen_stats.errors) + 1
    /\ SubSeq(gen_stats'.errors, 1, Len(gen_stats.errors)) = gen_stats.errors
    /\ gen_stats'.episodes = gen_stats.episodes
    /\ gen_stats'.total_episodes = gen_stats.total_episodes
    /\ gen_stats'.total_characters = gen_stats.total_characters

Elems(s) == { s[i] : i \in DOMAIN s }

\* no URL was fetched twice
FetchedOnce == \A i, j \in DOMAIN fetch_log : i # j => fetch_log[i] # fetch_log[j]

\* the URLs returned are those of distinct days, in ascending order of day
AscendingDays(urls) ==
    \A i, j \in DOMAIN urls : i < j => ExtractDay(urls[i]) < ExtractDay(urls[j])

\* a URL that enters the queue is that of a day not discovered before
EnqueuedForNewDay ==
    \A u \in Elems(urls_to_check') \ Elems(urls_to_check) :
        ~HasDay(discovered, ExtractDay(u))

\* the largest day number a URL can carry: the pattern takes two digits
MAX_DAY_NUMBER == 99

\* a bound on the steps discover_article_urls has still to make: the
\* phases to come, the URLs in the queue, and twice the day numbers not
\* yet discovered (each can add one URL to the queue)
CrawlMeasure ==
    (IF cpc = "start" THEN 1 ELSE 0) + (IF cpc # "done" THEN 1 ELSE 0)
        + Len(urls_to_check) + 2 * (MAX_DAY_NUMBER - Len(discovered))

\* discover_article_urls terminates on every site: every step lowers
\* CrawlMeasure, which never falls below zero
CrawlTerminates ==
    /\ [](CrawlMeasure >= 0)
    /\ [][CrawlMeasure' < CrawlMeasure]_vars

\* the parts of C30 that are about the queue, the fetches and the result
CrawlIsOrderly ==
    /\ [](FetchedOnce /\ (cpc = "done" => AscendingDays(returned)))
    /\ [][EnqueuedForNewDay]_vars

\* C30: each URL is fetched at most once, a URL is enqueued only for a day
\* number not yet discovered, the result holds at most one URL per day in
\* ascending order of day, and once 31 days are discovered the crawl
\* stops: no further page is fetched.
C30_CrawlStopsAtTarget ==
    /\ [](FetchedOnce /\ (cpc = "done" => AscendingDays(returned)))
    /\ [][ /\ EnqueuedForNewDay
           /\ Len(discovered) >= TARGET_DAYS => fetch_log' = fetch_log ]_vars

=============================================================================
